---- MODULE Spec2Model ----
(***************************************************************************)
(* LinkedIn-Post-Generator: the quality filter, the content ranker, the    *)
(* content database and the post generator that drives them.               *)
(*                                                                         *)
(* Python values are records [t, n, s]: t is the type tag, n the number    *)
(* (an int, or the instant of a datetime in seconds), s the text as a      *)
(* sequence of one-character strings.  A dict is a function from the keys  *)
(* it holds to values.  An operation that can raise returns a record with  *)
(* an exc field naming the exception ("" when it returns normally).        *)
(***************************************************************************)
EXTENDS Integers, Sequences, FiniteSets, TLC

VARIABLES
    now,            \* the wall clock, seconds
    content_items,  \* the list of dicts the last operation worked on
    filtered_items, \* filter_content's result: positions in content_items
    top_items,      \* rank_content / get_top_items result: positions
    best_item,      \* generate_news_post's selection: a position, 0 if none
    outcome,        \* what the last operation did (see each action)
    prev,           \* the previous pipeline run's result (scores, order)
    db_content,     \* content_items table: sequence of rows, by rowid
    db_posts,       \* generated_posts table: sequence of rows, by rowid
    ticks,          \* how many times the clock advanced
    calls           \* pipeline invocations running side by side, if any

vars == <<now, content_items, filtered_items, top_items, best_item, outcome,
          prev, db_content, db_posts, ticks, calls>>

(***************************************************************************)
(* Python values                                                           *)
(***************************************************************************)
None == [t |-> "none", n |-> 0, s |-> <<>>]
PyInt(k) == [t |-> "int", n |-> k, s |-> <<>>]
PyStr(chars) == [t |-> "str", n |-> 0, s |-> chars]
\* a timezone-aware datetime object at instant k
DateTime(k) == [t |-> "datetime", n |-> k, s |-> <<>>]
\* a str holding a well-formed ISO-8601 timestamp of instant k (its text is
\* not spelled out; datetime.fromisoformat accepts exactly these strings)
IsoStr(k) == [t |-> "isostr", n |-> k, s |-> <<>>]

IsStr(v) == v.t \in {"str", "isostr"}
IsInt(v) == v.t = "int"
\* Python truthiness: None, 0 and "" are falsy
Truthy(v) ==
    CASE v.t = "none" -> FALSE
      [] v.t = "int" -> v.n # 0
      [] v.t = "str" -> v.s # <<>>
      [] OTHER -> TRUE

\* dict.get(key, default)
Get(d, key, default) == IF key \in DOMAIN d THEN d[key] ELSE default

(***************************************************************************)
(* Text                                                                    *)
(***************************************************************************)
UpperCase ==
    <<"A","B","C","D","E","F","G","H","I","J","K","L","M",
      "N","O","P","Q","R","S","T","U","V","W","X","Y","Z">>
LowerCase ==
    <<"a","b","c","d","e","f","g","h","i","j","k","l","m",
      "n","o","p","q","r","s","t","u","v","w","x","y","z">>
UpperSet == {UpperCase[i] : i \in 1..26}
LowerOf == [c \in UpperSet |-> LowerCase[CHOOSE i \in 1..26 : UpperCase[i] = c]]

LowerChar(c) == IF c \in UpperSet THEN LowerOf[c] ELSE c

\* str.lower()
Lower(text) == [i \in 1..Len(text) |-> LowerChar(text[i])] \o <<>>

\* text[at+1 .. at+Len(word)] = word
MatchAt(text, word, at) ==
    /\ at + Len(word) <= Len(text)
    /\ \A j \in 1..Len(word) : text[at + j] = word[j]

\* the characters a text is made of
CharsOf(text) == {text[i] : i \in 1..Len(text)}

\* word in text: a text holding the word holds each of its characters, which
\* is looked at first
Contains(text, word) ==
    /\ \A j \in 1..Len(word) : word[j] \in CharsOf(text)
    /\ \E at \in 0..(Len(text) - Len(word)) : MatchAt(text, word, at)

\* text.startswith(word)
StartsWith(text, word) == MatchAt(text, word, 0)

\* n copies of character c
Rep(c, n) == [i \in 1..n |-> c]

Min(S) == CHOOSE x \in S : \A y \in S : x <= y
Max(S) == CHOOSE x \in S : \A y \in S : x >= y

(***************************************************************************)
(* Source and category labels                                              *)
(***************************************************************************)
ArXiv == <<"A","r","X","i","v">>
HackerNews == <<"H","a","c","k","e","r","N","e","w","s">>
DevTo == <<"D","e","v",".","t","o">>
Reddit == <<"R","e","d","d","i","t">>
Lobsters == <<"L","o","b","s","t","e","r","s">>
Unknown == <<"U","n","k","n","o","w","n">>
AI == <<"A","I">>
DevOps == <<"D","e","v","O","p","s">>
Cloud == <<"C","l","o","u","d">>
DataScience == <<"D","a","t","a","S","c","i","e","n","c","e">>

(***************************************************************************)
(* QualityFilter.__init__: the filter's tables                             *)
(***************************************************************************)
\* self.min_title_length.get(source, default)
min_title_length(source, default) ==
    CASE source = PyStr(ArXiv) -> 20
      [] source = PyStr(HackerNews) -> 15
      [] source = PyStr(DevTo) -> 20
      [] source = PyStr(Reddit) -> 25
      [] OTHER -> default

\* self.min_engagement.get(source, default)
min_engagement(source, default) ==
    CASE source = PyStr(ArXiv) -> 0
      [] source = PyStr(HackerNews) -> 20
      [] source = PyStr(DevTo) -> 10
      [] source = PyStr(Reddit) -> 50
      [] OTHER -> default

spam_keywords ==
    << <<"c","l","i","c","k"," ","h","e","r","e">>,
       <<"b","u","y"," ","n","o","w">>,
       <<"l","i","m","i","t","e","d"," ","o","f","f","e","r">>,
       <<"a","c","t"," ","f","a","s","t">>,
       <<"a","m","a","z","i","n","g"," ","t","r","i","c","k">>,
       <<"y","o","u"," ","w","o","n","'","t"," ","b","e","l","i","e","v","e">>,
       <<"d","o","c","t","o","r","s"," ","h","a","t","e">>,
       <<"t","h","i","s"," ","o","n","e"," ","w","e","i","r","d">>,
       <<"s","h","o","c","k","i","n","g">>,
       <<"m","u","s","t"," ","s","e","e">> >>

excluded_subreddits ==
    << <<"m","e","m","e","s">>,
       <<"f","u","n","n","y">>,
       <<"p","i","c","s">>,
       <<"a","w","w">>,
       <<"m","e","_","i","r","l">>,
       <<"g","a","m","i","n","g">>,
       <<"t","o","d","a","y","i","l","e","a","r","n","e","d">>,
       <<"s","h","o","w","e","r","t","h","o","u","g","h","t","s">> >>

(***************************************************************************)
(* QualityFilter.is_high_quality                                           *)
(***************************************************************************)
\* the (is_quality, reason) tuple; a reason is its wording and the values
\* formatted into it
Reason(text, a, b, kw) == [text |-> text, a |-> a, b |-> b, kw |-> kw]
Verdict(ok, reason) == [exc |-> "", ok |-> ok, reason |-> reason]
VerdictRaises(exc) == [exc |-> exc, ok |-> FALSE, reason |-> Reason("", 0, 0, <<>>)]

\* re.search(r'/r/([^/]+)', url): the places where the pattern matches
SubredditStarts(url) ==
    {i \in 1..(Len(url) - 3) :
        /\ url[i] = "/" /\ url[i + 1] = "r" /\ url[i + 2] = "/"
        /\ url[i + 3] # "/"}

\* group(1) of the leftmost match: the longest run without "/"
SubredditGroup(url) ==
    LET from == Min(SubredditStarts(url)) + 3
        stops == {j \in from..Len(url) : url[j] = "/"}
        to == IF stops = {} THEN Len(url) ELSE Min(stops) - 1
    IN  SubSeq(url, from, to)

InList(list, x) == \E i \in 1..Len(list) : list[i] = x

\* the first spam keyword, in the table's order, found in the text; 0 if none
FirstSpam(text) ==
    LET hits == {i \in 1..Len(spam_keywords) : Contains(text, spam_keywords[i])}
    IN  IF hits = {} THEN 0 ELSE Min(hits)

\* a variant that compares the subreddit as it is written
RedditCheckCaseSensitive(title, summary, url) ==
    IF /\ SubredditStarts(url.s) # {}
       /\ InList(excluded_subreddits, SubredditGroup(url.s))
    THEN Verdict(FALSE, Reason("Excluded subreddit", 0, 0, SubredditGroup(url.s)))
    ELSE IF Len(title.s) < 30 /\ Len(summary.s) < 100
    THEN Verdict(FALSE, Reason("Reddit post lacks substance", 0, 0, <<>>))
    ELSE Verdict(TRUE, Reason("Passed all quality checks", 0, 0, <<>>))

\* Check 6 (source == 'Reddit'), and the final accept
RedditCheck(title, summary, url) ==
    IF /\ SubredditStarts(url.s) # {}
       /\ InList(excluded_subreddits, Lower(SubredditGroup(url.s)))
    THEN Verdict(FALSE, Reason("Excluded subreddit", 0, 0, Lower(SubredditGroup(url.s))))
    ELSE IF Len(title.s) < 30 /\ Len(summary.s) < 100
    THEN Verdict(FALSE, Reason("Reddit post lacks substance", 0, 0, <<>>))
    ELSE Verdict(TRUE, Reason("Passed all quality checks", 0, 0, <<>>))

\* Check 5, then check 6
UrlCheck(source, title, summary, url) ==
    IF ~Truthy(url) \/ ~StartsWith(url.s, <<"h","t","t","p">>)
    THEN Verdict(FALSE, Reason("Invalid or missing URL", 0, 0, <<>>))
    ELSE IF source = PyStr(Reddit)
    THEN RedditCheck(title, summary, url)
    ELSE Verdict(TRUE, Reason("Passed all quality checks", 0, 0, <<>>))

\* a variant that looks for spam in the title alone
SpamCheckTitleOnly(source, title, summary, url) ==
    LET hit == FirstSpam(Lower(title.s))
    IN  IF hit # 0
        THEN Verdict(FALSE, Reason("Spam keyword detected", 0, 0, spam_keywords[hit]))
        ELSE UrlCheck(source, title, summary, url)

\* Check 4, then the rest
SpamCheck(source, title, summary, url) ==
    LET combined_text == Lower(title.s \o <<" ">> \o summary.s)
        hit == FirstSpam(combined_text)
    IN  IF hit # 0
        THEN Verdict(FALSE, Reason("Spam keyword detected", 0, 0, spam_keywords[hit]))
        ELSE UrlCheck(source, title, summary, url)

\* a variant that looks for spam before it looks at the engagement
EngagementCheckAfterSpam(source, title, summary, engagement, url) ==
    IF FirstSpam(Lower(title.s \o <<" ">> \o summary.s)) # 0
    THEN SpamCheck(source, title, summary, url)
    ELSE IF source # PyStr(ArXiv) /\ IsInt(engagement)
            /\ engagement.n < min_engagement(source, 10)
    THEN Verdict(FALSE, Reason("Low engagement", engagement.n,
                               min_engagement(source, 10), <<>>))
    ELSE SpamCheck(source, title, summary, url)

\* a variant that also rejects an engagement equal to the minimum
EngagementCheckInclusive(source, title, summary, engagement, url) ==
    IF source # PyStr(ArXiv) /\ engagement.n <= min_engagement(source, 10)
    THEN Verdict(FALSE, Reason("Low engagement", engagement.n,
                               min_engagement(source, 10), <<>>))
    ELSE SpamCheck(source, title, summary, url)

\* Check 3, then the rest; engagement < min_eng raises TypeError unless
\* engagement is a number
EngagementCheck(source, title, summary, engagement, url) ==
    IF source # PyStr(ArXiv)
    THEN LET min_eng == min_engagement(source, 10)
         IN  IF ~IsInt(engagement) THEN VerdictRaises("TypeError")
             ELSE IF engagement.n < min_eng
             THEN Verdict(FALSE, Reason("Low engagement", engagement.n, min_eng, <<>>))
             ELSE SpamCheck(source, title, summary, url)
    ELSE SpamCheck(source, title, summary, url)

is_high_quality(content_item) ==
    LET source == Get(content_item, "source", PyStr(<<>>))
        title == Get(content_item, "title", PyStr(<<>>))
        summary == Get(content_item, "summary", PyStr(<<>>))
        engagement == Get(content_item, "engagement_score", PyInt(0))
        url == Get(content_item, "url", PyStr(<<>>))
        min_length == min_title_length(source, 15)
    IN  \* Check 1: len(title) raises TypeError when title is None
        IF ~IsStr(title) THEN VerdictRaises("TypeError")
        ELSE IF Len(title.s) < min_length
        THEN Verdict(FALSE, Reason("Title too short", Len(title.s), min_length, <<>>))
        \* Check 2
        ELSE IF ~Truthy(summary) \/ Len(summary.s) < 50
        THEN Verdict(FALSE, Reason("Summary too short or missing", 0, 0, <<>>))
        ELSE EngagementCheck(source, title, summary, engagement, url)

(***************************************************************************)
(* ContentRanker.__init__: the ranker's tables.  Sub-scores are fixed      *)
(* point numbers in units of 1/10000 (100 is 1000000); the composite score *)
(* is in hundredths (100.00 is 10000).                                     *)
(***************************************************************************)
weights_recency == 4        \* 0.4, in tenths
weights_engagement == 3     \* 0.3
weights_relevance == 3      \* 0.3

kw_AI ==
    << <<"a","i">>,
       <<"a","r","t","i","f","i","c","i","a","l"," ","i","n","t","e","l","l","i","g","e","n","c","e">>,
       <<"m","a","c","h","i","n","e"," ","l","e","a","r","n","i","n","g">>,
       <<"d","e","e","p"," ","l","e","a","r","n","i","n","g">>,
       <<"n","e","u","r","a","l">>,
       <<"g","p","t">>,
       <<"l","l","m">>,
       <<"t","r","a","n","s","f","o","r","m","e","r">>,
       <<"m","l">>,
       <<"m","o","d","e","l">> >>
kw_DevOps ==
    << <<"d","e","v","o","p","s">>,
       <<"k","u","b","e","r","n","e","t","e","s">>,
       <<"d","o","c","k","e","r">>,
       <<"c","i","/","c","d">>,
       <<"j","e","n","k","i","n","s">>,
       <<"a","u","t","o","m","a","t","i","o","n">>,
       <<"d","e","p","l","o","y","m","e","n","t">>,
       <<"i","n","f","r","a","s","t","r","u","c","t","u","r","e">>,
       <<"c","o","n","t","a","i","n","e","r","i","z","a","t","i","o","n">>,
       <<"p","i","p","e","l","i","n","e">> >>
kw_Cloud ==
    << <<"c","l","o","u","d">>,
       <<"a","w","s">>,
       <<"a","z","u","r","e">>,
       <<"g","c","p">>,
       <<"s","e","r","v","e","r","l","e","s","s">>,
       <<"m","i","c","r","o","s","e","r","v","i","c","e","s">>,
       <<"d","i","s","t","r","i","b","u","t","e","d">>,
       <<"s","c","a","l","a","b","i","l","i","t","y">>,
       <<"k","u","b","e","r","n","e","t","e","s">> >>
kw_DataScience ==
    << <<"d","a","t","a"," ","s","c","i","e","n","c","e">>,
       <<"a","n","a","l","y","t","i","c","s">>,
       <<"v","i","s","u","a","l","i","z","a","t","i","o","n">>,
       <<"b","i","g"," ","d","a","t","a">>,
       <<"s","t","a","t","i","s","t","i","c","s">>,
       <<"p","a","n","d","a","s">>,
       <<"n","u","m","p","y">>,
       <<"a","n","a","l","y","s","i","s">> >>

\* category in self.relevance_keywords
IsRelevanceCategory(category) ==
    category \in {PyStr(AI), PyStr(DevOps), PyStr(Cloud), PyStr(DataScience)}

\* self.relevance_keywords[category]
relevance_keywords(category) ==
    CASE category = PyStr(AI) -> kw_AI
      [] category = PyStr(DevOps) -> kw_DevOps
      [] category = PyStr(Cloud) -> kw_Cloud
      [] category = PyStr(DataScience) -> kw_DataScience

(***************************************************************************)
(* Numbers                                                                 *)
(***************************************************************************)
\* a float result, or the exception raised instead
Num(v) == [exc |-> "", v |-> v]
NumRaises(exc) == [exc |-> exc, v |-> 0]
\* the float stored in an item: hundredths
PyFloat(h) == [t |-> "float", n |-> h, s |-> <<>>]

\* a * b / 10^7, rounded down, for a and b in units of 1/10^7, each split
\* in two so that no product passes 2^31
MulScaled(a, b) ==
    LET ah == a \div 10000
        al == a % 10000
        bh == b \div 10000
        bl == b % 10000
    IN  ah * bh * 10 + (ah * bl + al * bh + (al * bl) \div 10000) \div 1000

\* sum over k >= from - 1 of x^k/k!, x and the result in units of 1/10^7,
\* term being x^(from-1)/(from-1)!; cut after 24 terms
RECURSIVE ExpSeries(_, _, _)
ExpSeries(x, from, term) ==
    IF from > 24 \/ term = 0 THEN 0
    ELSE term + ExpSeries(x, from + 1, MulScaled(term, x) \div from)

\* n * 10^digits / d, rounded down, by long division
RECURSIVE ScaledQuotient(_, _, _, _)
ScaledQuotient(quotient, remainder, d, digits) ==
    IF digits = 0 THEN quotient
    ELSE ScaledQuotient(quotient * 10 + (remainder * 10) \div d,
                        (remainder * 10) % d, d, digits - 1)

\* 40 * math.exp(-(days - 7) / 7) for an age above 7 days, rounded down to
\* 1/10000, as 40 / exp((days - 7) / 7); good for ages up to 28 days
ExpDecay(age_seconds) ==
    LET excess == age_seconds - 604800
        \* excess / 604800 in units of 1/10^7
        x == (excess \div 189) * 3125 + ((excess % 189) * 3125) \div 189
        exp_x == ExpSeries(x, 1, 10000000)
    IN  ScaledQuotient(0, 4, exp_x, 12)

\* math.log10(k) * 10 for k in 1..9, in units of 1/10000
Log10Times10 == <<0, 30103, 47712, 60206, 69897, 77815, 84510, 90309, 95424>>

\* round(x, 2) of x given in units of 1/100000: to hundredths, half to even
Round2(x) ==
    LET q == x \div 1000
        r == x % 1000
    IN  IF r > 500 \/ (r = 500 /\ q % 2 = 1) THEN q + 1 ELSE q

(***************************************************************************)
(* ContentRanker: the three sub-scores and the composite score             *)
(***************************************************************************)
\* a variant whose steps leave their upper ends out
RecencyOfAgeExclusive(age_seconds) ==
    IF age_seconds < 24 * 3600 THEN 1000000
    ELSE IF age_seconds < 48 * 3600 THEN 900000
    ELSE IF age_seconds < 72 * 3600 THEN 800000
    ELSE IF age_seconds < 96 * 3600 THEN 700000
    ELSE IF age_seconds < 120 * 3600 THEN 600000
    ELSE IF age_seconds < 144 * 3600 THEN 500000
    ELSE IF age_seconds < 168 * 3600 THEN 400000
    ELSE Max({0, ExpDecay(age_seconds + 1)})

\* the step function of the age in seconds (age_hours <= 24, ...)
RecencyOfAge(age_seconds) ==
    IF age_seconds <= 24 * 3600 THEN 1000000
    ELSE IF age_seconds <= 48 * 3600 THEN 900000
    ELSE IF age_seconds <= 72 * 3600 THEN 800000
    ELSE IF age_seconds <= 96 * 3600 THEN 700000
    ELSE IF age_seconds <= 120 * 3600 THEN 600000
    ELSE IF age_seconds <= 144 * 3600 THEN 500000
    ELSE IF age_seconds <= 168 * 3600 THEN 400000
    ELSE Max({0, ExpDecay(age_seconds)})

\* clock is datetime.now(timezone.utc) at the call
calculate_recency_score(published_date, clock) ==
    IF ~Truthy(published_date) THEN Num(0)
    ELSE IF published_date.t = "str" THEN Num(0)      \* fromisoformat raised
    ELSE IF published_date.t \in {"isostr", "datetime"}
    THEN Num(RecencyOfAge(clock - published_date.n))
    ELSE NumRaises("AttributeError")                  \* no .tzinfo

\* a variant whose branches take their upper ends in
calculate_engagement_score_inclusive(engagement_score) ==
    IF ~Truthy(engagement_score) THEN Num(0)
    ELSE IF ~IsInt(engagement_score) THEN NumRaises("TypeError")
    ELSE IF engagement_score.n < 0 THEN Num(0)
    ELSE IF engagement_score.n <= 10 THEN Num(engagement_score.n * 50000)
    ELSE IF engagement_score.n <= 50
    THEN Num(500000 + (engagement_score.n - 10) * 12500)
    ELSE IF engagement_score.n <= 100
    THEN Num(750000 + (engagement_score.n - 50) * 5000)
    ELSE IF engagement_score.n - 99 >= 10 THEN Num(1000000)
    ELSE Num(Min({1000000, 900000 + Log10Times10[engagement_score.n - 99]}))

calculate_engagement_score(engagement_score) ==
    IF ~Truthy(engagement_score) THEN Num(0)
    ELSE IF ~IsInt(engagement_score) THEN NumRaises("TypeError")
    ELSE IF engagement_score.n < 0 THEN Num(0)
    ELSE IF engagement_score.n < 10 THEN Num(engagement_score.n * 50000)
    ELSE IF engagement_score.n < 50
    THEN Num(500000 + (engagement_score.n - 10) * 12500)
    ELSE IF engagement_score.n < 100
    THEN Num(750000 + (engagement_score.n - 50) * 5000)
    ELSE IF engagement_score.n - 99 >= 10 THEN Num(1000000)
    ELSE Num(Min({1000000, 900000 + Log10Times10[engagement_score.n - 99]}))

\* sum(1 for keyword in keywords if keyword in content_text)
KeywordMatches(keywords, content_text) ==
    Cardinality({i \in 1..Len(keywords) : Contains(content_text, keywords[i])})

\* a variant without the two caps
calculate_relevance_score_uncapped(content_item) ==
    LET title == Get(content_item, "title", PyStr(<<>>))
        summary == Get(content_item, "summary", PyStr(<<>>))
        category == Get(content_item, "category", PyStr(<<>>))
        content_text == Lower(title.s) \o <<" ">> \o Lower(summary.s)
    IN  IF IsRelevanceCategory(category)
        THEN Num((50 + 10 * KeywordMatches(relevance_keywords(category), content_text)) * 10000)
        ELSE Num(500000)

calculate_relevance_score(content_item) ==
    LET title == Get(content_item, "title", PyStr(<<>>))
        summary == Get(content_item, "summary", PyStr(<<>>))
        category == Get(content_item, "category", PyStr(<<>>))
    IN  \* .lower() of None raises AttributeError
        IF ~IsStr(title) \/ ~IsStr(summary) THEN NumRaises("AttributeError")
        ELSE LET content_text == Lower(title.s) \o <<" ">> \o Lower(summary.s)
                 bonus == IF IsRelevanceCategory(category)
                          THEN Min({50, 10 * KeywordMatches(relevance_keywords(category),
                                                            content_text)})
                          ELSE 0
             IN  Num(Min({100, 50 + bonus}) * 10000)

\* a variant that cuts the third decimal off
calculate_total_score_truncated(content_item, clock) ==
    LET recency_score == calculate_recency_score(Get(content_item, "published_date", None), clock)
        engagement_score ==
            calculate_engagement_score(Get(content_item, "engagement_score", PyInt(0)))
        relevance_score == calculate_relevance_score(content_item)
    IN  Num((recency_score.v * weights_recency
             + engagement_score.v * weights_engagement
             + relevance_score.v * weights_relevance) \div 1000)

\* a variant that adds five points for a research paper
calculate_total_score_by_source(content_item, clock) ==
    LET recency_score == calculate_recency_score(Get(content_item, "published_date", None), clock)
        engagement_score ==
            calculate_engagement_score(Get(content_item, "engagement_score", PyInt(0)))
        relevance_score == calculate_relevance_score(content_item)
        bonus == IF Get(content_item, "source", None) = PyStr(ArXiv) THEN 500 ELSE 0
    IN  Num(Min({10000, bonus + Round2(recency_score.v * weights_recency
                                       + engagement_score.v * weights_engagement
                                       + relevance_score.v * weights_relevance)}))

\* the composite score in hundredths
calculate_total_score(content_item, clock) ==
    LET recency_score == calculate_recency_score(Get(content_item, "published_date", None), clock)
        engagement_score ==
            calculate_engagement_score(Get(content_item, "engagement_score", PyInt(0)))
        relevance_score == calculate_relevance_score(content_item)
    IN  IF recency_score.exc # "" THEN recency_score
        ELSE IF engagement_score.exc # "" THEN engagement_score
        ELSE IF relevance_score.exc # "" THEN relevance_score
        ELSE Num(Round2(recency_score.v * weights_recency
                        + engagement_score.v * weights_engagement
                        + relevance_score.v * weights_relevance))

(***************************************************************************)
(* Lists of items.  A list that shares its dicts with another list (the    *)
(* filtered list, the ranked list) is a sequence of positions in the list  *)
(* that holds the dicts, so that a change made to a dict through one list  *)
(* is seen through the others.                                             *)
(***************************************************************************)
\* d[key] = value on a dict
SetKey(d, key, value) ==
    [k \in (DOMAIN d) \cup {key} |-> IF k = key THEN value ELSE d[k]]

\* rejected_count[source] = rejected_count.get(source, 0) + 1
CountUp(counts, source) ==
    [k \in (DOMAIN counts) \cup {source} |->
        IF k = source THEN (IF source \in DOMAIN counts THEN counts[source] ELSE 0) + 1
        ELSE counts[k]]

\* list[:n]
SliceTo(list, n) ==
    IF n >= 0 THEN SubSeq(list, 1, Min({n, Len(list)}))
    ELSE SubSeq(list, 1, Max({0, Len(list) + n}))

\* the item without the score attached to it
Strip(item) == [k \in (DOMAIN item) \ {"calculated_score"} |-> item[k]]

\* the items of a list as they are apart from the score
Originals(list) == [i \in 1..Len(list) |-> Strip(list[i])]

\* the positions 1..Len(list), in order: the list itself as references
Refs(list) == [i \in 1..Len(list) |-> i]

(***************************************************************************)
(* QualityFilter.filter_content (verbose=False)                            *)
(***************************************************************************)
\* a variant that puts each accepted item in front of the earlier ones
RECURSIVE FilterLoopNewestFirst(_, _, _, _)
FilterLoopNewestFirst(items, i, filtered, rejected_count) ==
    IF i > Len(items)
    THEN [exc |-> "", items |-> items, filtered_items |-> filtered,
          rejected_count |-> rejected_count]
    ELSE CHOOSE result \in
           {IF verdict.exc # ""
            THEN [exc |-> verdict.exc, items |-> items, filtered_items |-> <<>>,
                  rejected_count |-> rejected_count]
            ELSE IF verdict.ok
            THEN FilterLoopNewestFirst(items, i + 1, <<i>> \o filtered, rejected_count)
            ELSE FilterLoopNewestFirst(items, i + 1, filtered,
                            CountUp(rejected_count, Get(items[i], "source", PyStr(Unknown)))) :
              verdict \in {is_high_quality(items[i])}} : TRUE

\* the for loop from item i on; items is the caller's list, which the loop
\* only reads
RECURSIVE FilterLoop(_, _, _, _)
FilterLoop(items, i, filtered, rejected_count) ==
    IF i > Len(items)
    THEN [exc |-> "", items |-> items, filtered_items |-> filtered,
          rejected_count |-> rejected_count]
    ELSE CHOOSE result \in
           {IF verdict.exc # ""
            THEN [exc |-> verdict.exc, items |-> items, filtered_items |-> <<>>,
                  rejected_count |-> rejected_count]
            ELSE IF verdict.ok
            THEN FilterLoop(items, i + 1, Append(filtered, i), rejected_count)
            ELSE FilterLoop(items, i + 1, filtered,
                            CountUp(rejected_count, Get(items[i], "source", PyStr(Unknown)))) :
              verdict \in {is_high_quality(items[i])}} : TRUE

\* a variant that writes its verdict into each item
filter_content_marking(items) ==
    [FilterLoop(items, 1, <<>>, <<>>) EXCEPT
        !.items = [i \in 1..Len(items) |->
                     SetKey(items[i], "is_quality",
                            PyInt(IF is_high_quality(items[i]).ok THEN 1 ELSE 0))]]

filter_content(items) == FilterLoop(items, 1, <<>>, <<>>)

\* 'return filtered_items': what the caller of filter_content gets
Returned(result) == [filtered_items |-> result.filtered_items]

(***************************************************************************)
(* QualityFilter.get_quality_report                                        *)
(***************************************************************************)
\* d[key] += 1, a key not yet there starting at zero
Incremented(d, key, zero, field) ==
    [k \in (DOMAIN d) \cup {key} |->
        IF k # key THEN d[k]
        ELSE LET old == IF key \in DOMAIN d THEN d[key] ELSE zero
             IN  IF field = "" THEN old + 1 ELSE [old EXCEPT ![field] = @ + 1]]

\* the for loop from item i on
RECURSIVE ReportLoop(_, _, _)
ReportLoop(items, i, report) ==
    IF i > Len(items) THEN [exc |-> "", items |-> items, report |-> report]
    ELSE CHOOSE result \in
           {IF verdict.exc # "" THEN [exc |-> verdict.exc, items |-> items, report |-> report]
            ELSE LET source == Get(items[i], "source", PyStr(Unknown))
                     zero == [total |-> 0, high_quality |-> 0, rejected |-> 0]
                     counted == Incremented(report.by_source, source, zero, "total")
                 IN  IF verdict.ok
                     THEN ReportLoop(items, i + 1,
                            [report EXCEPT
                               !.high_quality = @ + 1,
                               !.by_source = Incremented(counted, source, zero, "high_quality")])
                     ELSE ReportLoop(items, i + 1,
                            [report EXCEPT
                               !.by_source = Incremented(counted, source, zero, "rejected"),
                               !.rejection_reasons = Incremented(@, verdict.reason, 0, "")]) :
              verdict \in {is_high_quality(items[i])}} : TRUE

get_quality_report(items) ==
    ReportLoop(items, 1, [total |-> Len(items), high_quality |-> 0,
                          by_source |-> <<>>, rejection_reasons |-> <<>>])

(***************************************************************************)
(* ContentRanker.rank_content and get_top_items                            *)
(***************************************************************************)
\* a variant whose score grows with the item's place in the list
RECURSIVE ScoreLoopByPosition(_, _, _, _)
ScoreLoopByPosition(store, refs, i, clock) ==
    IF i > Len(refs) THEN [exc |-> "", store |-> store]
    ELSE CHOOSE result \in
           {IF score.exc # "" THEN [exc |-> score.exc, store |-> store]
            ELSE ScoreLoopByPosition([store EXCEPT ![refs[i]] =
                               SetKey(@, "calculated_score", PyFloat(score.v + (i - 1)))],
                           refs, i + 1, clock) :
              score \in {calculate_total_score(store[refs[i]], clock)}} : TRUE

\* a variant that adds to the score an item already carries
RECURSIVE ScoreLoopAccumulating(_, _, _, _)
ScoreLoopAccumulating(store, refs, i, clock) ==
    IF i > Len(refs) THEN [exc |-> "", store |-> store]
    ELSE LET carried == IF "calculated_score" \in DOMAIN store[refs[i]]
                        THEN store[refs[i]]["calculated_score"].n ELSE 0
         IN  CHOOSE result \in
               {IF score.exc # "" THEN [exc |-> score.exc, store |-> store]
                ELSE ScoreLoopAccumulating([store EXCEPT ![refs[i]] =
                                   SetKey(@, "calculated_score", PyFloat(score.v + carried))],
                               refs, i + 1, clock) :
                  score \in {calculate_total_score(store[refs[i]], clock)}} : TRUE

\* the scoring loop from reference i on: item['calculated_score'] = ...
RECURSIVE ScoreLoop(_, _, _, _)
ScoreLoop(store, refs, i, clock) ==
    IF i > Len(refs) THEN [exc |-> "", store |-> store]
    ELSE CHOOSE result \in
           {IF score.exc # "" THEN [exc |-> score.exc, store |-> store]
            ELSE ScoreLoop([store EXCEPT ![refs[i]] =
                               SetKey(@, "calculated_score", PyFloat(score.v))],
                           refs, i + 1, clock) :
              score \in {calculate_total_score(store[refs[i]], clock)}} : TRUE

ScoreOf(store, ref) == store[ref]["calculated_score"].n

\* a variant that puts an item in front of its equals
InsertBeforeEquals(store, sorted, ref) ==
    LET lower == {j \in 1..Len(sorted) :
                    store[sorted[j]]["calculated_score"].n <= store[ref]["calculated_score"].n}
        at == IF lower = {} THEN Len(sorted) + 1 ELSE Min(lower)
    IN  SubSeq(sorted, 1, at - 1) \o <<ref>> \o SubSeq(sorted, at, Len(sorted))

\* ref put into a list sorted by score, highest first, behind its equals
InsertByScore(store, sorted, ref) ==
    LET lower == {j \in 1..Len(sorted) : ScoreOf(store, sorted[j]) < ScoreOf(store, ref)}
        at == IF lower = {} THEN Len(sorted) + 1 ELSE Min(lower)
    IN  SubSeq(sorted, 1, at - 1) \o <<ref>> \o SubSeq(sorted, at, Len(sorted))

\* sorted(content_items, key=calculated_score, reverse=True): a stable sort
RECURSIVE SortedByScore(_, _, _)
SortedByScore(store, refs, i) ==
    IF i = 0 THEN <<>>
    ELSE CHOOSE result \in
           {InsertByScore(store, sorted, refs[i]) :
              sorted \in {SortedByScore(store, refs, i - 1)}} : TRUE

\* a variant that sorts the caller's list itself (refs being all of it)
rank_content_in_place(store, refs, clock) ==
    LET scored == ScoreLoop(store, refs, 1, clock)
        sorted == SortedByScore(scored.store, refs, Len(refs))
    IN  IF scored.exc # ""
        THEN [exc |-> scored.exc, store |-> scored.store, ranked_items |-> <<>>]
        ELSE [exc |-> "",
              store |-> [i \in 1..Len(store) |->
                           IF i <= Len(sorted) THEN scored.store[sorted[i]]
                           ELSE scored.store[i]],
              ranked_items |-> [i \in 1..Len(sorted) |-> i]]

\* rank_content on the list refs of dicts held in store; the dicts changed
\* before an exception stay changed
rank_content(store, refs, clock) ==
    LET scored == ScoreLoop(store, refs, 1, clock)
    IN  IF scored.exc # ""
        THEN [exc |-> scored.exc, store |-> scored.store, ranked_items |-> <<>>]
        ELSE [exc |-> "", store |-> scored.store,
              ranked_items |-> SortedByScore(scored.store, refs, Len(refs))]

get_top_items(store, refs, n, clock) ==
    LET ranked == rank_content(store, refs, clock)
    IN  [exc |-> ranked.exc, store |-> ranked.store,
         ranked_items |-> SliceTo(ranked.ranked_items, n)]

(***************************************************************************)
(* Sample field values                                                     *)
(***************************************************************************)
\* a key the dict does not hold
Absent == [t |-> "absent", n |-> 0, s |-> <<>>]

\* the dict holding the fields of record r that are not Absent
Dict(r) == [k \in {k \in DOMAIN r : r[k] # Absent} |-> r[k]]

Title10 == Rep("t", 10)
Title18 == Rep("t", 18)
Title26 == Rep("t", 26)
Title40 == Rep("t", 40)
\* "You WON'T BELIEVE" and 13 more characters: 30
TitleSpam == <<"Y","o","u"," ","W","O","N","'","T"," ","B","E","L","I","E","V","E">> \o Rep("t", 13)
Summary20 == Rep("s", 20)
Summary60 == Rep("s", 60)
Summary120 == Rep("s", 120)
\* 50 characters and "Buy Now"
SummarySpam == Rep("s", 50) \o <<"B","u","y"," ","N","o","w">>
UrlPlain == <<"h","t","t","p",":","/","/","a",".","i","o","/","x">>
UrlFtp == <<"f","t","p",":","/","/","a",".","i","o","/","x">>
UrlMemes == <<"h","t","t","p","s",":","/","/","r","e","d","d","i","t",".","c","o","m","/","r","/","M","e","m","e","s","/","1">>
UrlRust == <<"h","t","t","p","s",":","/","/","r","e","d","d","i","t",".","c","o","m","/","r","/","r","u","s","t","/","1">>

(***************************************************************************)
(* SpecFilter: is_high_quality applied to one item                         *)
(***************************************************************************)
FilterSources == {PyStr(ArXiv), PyStr(HackerNews), PyStr(DevTo), PyStr(Reddit), PyStr(Lobsters)}
FilterTitles == {PyStr(Title10), PyStr(Title18), PyStr(Title26), PyStr(Title40), PyStr(TitleSpam)}
FilterSummaries == {Absent, PyStr(Summary20), PyStr(Summary60), PyStr(Summary120), PyStr(SummarySpam)}
FilterEngagements == {PyInt(0), PyInt(15), PyInt(30), PyInt(60)}
FilterUrls == {Absent, PyStr(UrlFtp), PyStr(UrlPlain), PyStr(UrlMemes), PyStr(UrlRust)}

FilterInputs ==
    {Dict([source |-> so, title |-> ti, summary |-> su, engagement_score |-> en, url |-> ur]) :
        so \in FilterSources, ti \in FilterTitles, su \in FilterSummaries,
        en \in FilterEngagements, ur \in FilterUrls}

Idle ==
    /\ now = 0 /\ ticks = 0
    /\ filtered_items = <<>> /\ top_items = <<>> /\ best_item = 0
    /\ prev = [op |-> "none"]
    /\ db_content = <<>> /\ db_posts = <<>>
    /\ calls = <<>>

InitFilter ==
    /\ Idle
    /\ content_items \in {<<item>> : item \in FilterInputs}
    /\ outcome = [op |-> "init"]

\* verdict = is_high_quality(item)
Evaluate ==
    /\ content_items # <<>>
    /\ outcome' = [op |-> "is_high_quality", before |-> content_items,
                   verdict |-> is_high_quality(content_items[1])]
    /\ UNCHANGED <<calls, now, content_items, filtered_items, top_items, best_item, prev,
                   db_content, db_posts, ticks>>

NextFilter == Evaluate

SpecFilter == InitFilter /\ [][NextFilter]_vars

(***************************************************************************)
(* The six rules of the filter, each stated on its own                     *)
(***************************************************************************)
TextOf(item, key) == Get(item, key, PyStr(<<>>)).s

Violates(item, rule) ==
    LET source == Get(item, "source", PyStr(<<>>))
        title == TextOf(item, "title")
        summary == TextOf(item, "summary")
        url == TextOf(item, "url")
    IN  CASE rule = 1 -> Len(title) < min_title_length(source, 15)
          [] rule = 2 -> Len(summary) < 50
          [] rule = 3 -> /\ source # PyStr(ArXiv)
                         /\ Get(item, "engagement_score", PyInt(0)).n < min_engagement(source, 10)
          [] rule = 4 -> \E i \in 1..Len(spam_keywords) :
                            Contains(Lower(title \o <<" ">> \o summary), spam_keywords[i])
          [] rule = 5 -> ~StartsWith(url, <<"h","t","t","p">>)
          [] rule = 6 -> /\ source = PyStr(Reddit)
                         /\ \/ /\ SubredditStarts(url) # {}
                               /\ InList(excluded_subreddits, Lower(SubredditGroup(url)))
                            \/ Len(title) < 30 /\ Len(summary) < 100

ViolatedRules(item) == {rule \in 1..6 : Violates(item, rule)}

\* the rule a reason belongs to; 0 for the accepting reason
RuleOfReason(reason) ==
    CASE reason.text = "Title too short" -> 1
      [] reason.text = "Summary too short or missing" -> 2
      [] reason.text = "Low engagement" -> 3
      [] reason.text = "Spam keyword detected" -> 4
      [] reason.text = "Invalid or missing URL" -> 5
      [] reason.text \in {"Excluded subreddit", "Reddit post lacks substance"} -> 6
      [] reason.text = "Passed all quality checks" -> 0
      [] OTHER -> 7

\* C2: is_high_quality reports the earliest violated rule, in the order
\* title, summary, engagement, spam, url, Reddit rule, and accepts an item
\* exactly when it violates no rule.
C2_EarliestRule ==
    outcome.op = "is_high_quality" =>
        LET violated == ViolatedRules(content_items[1])
        IN  /\ outcome.verdict.exc = ""
            /\ outcome.verdict.ok <=> violated = {}
            /\ violated # {} => RuleOfReason(outcome.verdict.reason) = Min(violated)
            /\ violated = {} => RuleOfReason(outcome.verdict.reason) = 0

\* an item with low engagement, a spam phrase and a bad url is rejected
\* for its engagement
C2_Witness ==
    /\ outcome.op = "is_high_quality"
    /\ {3, 4, 5} \subseteq ViolatedRules(content_items[1])
    /\ outcome.verdict.reason.text = "Low engagement"

(***************************************************************************)
(* SpecRank: rank_content, get_top_items and the pipeline (filter_content  *)
(* then rank_content) applied to one list of items.  SpecTwice: the same   *)
(* calls repeated on the list while the clock runs, each call's result     *)
(* kept in prev for the next call to compare.                              *)
(***************************************************************************)
MaxLen == 3         \* longest input list of SpecRank
MaxLenTwice == 2    \* longest input list of SpecTwice
MaxTicks == 1       \* clock advances
TickSeconds == 1    \* seconds per advance

Hours(h) == h * 3600

\* at clock 0: exactly 24 hours old, score 79.00; a second later 75.00
PoolDayOld ==
    Dict([id |-> PyInt(1), source |-> PyStr(HackerNews), title |-> PyStr(Title40),
          summary |-> PyStr(Summary60), engagement_score |-> PyInt(60),
          url |-> PyStr(UrlPlain), category |-> PyStr(AI),
          published_date |-> DateTime(0 - Hours(24))])
\* 10 hours old, score 79.00
PoolFresh ==
    Dict([id |-> PyInt(2), source |-> PyStr(DevTo), title |-> PyStr(Title26),
          summary |-> PyStr(Summary60), engagement_score |-> PyInt(60),
          url |-> PyStr(UrlPlain), category |-> Absent,
          published_date |-> IsoStr(0 - Hours(10))])
\* a research paper, almost 3 days old, score 62.00
PoolPaper ==
    Dict([id |-> PyInt(3), source |-> PyStr(ArXiv), title |-> PyStr(Title26),
          summary |-> PyStr(Summary120), engagement_score |-> PyInt(10),
          url |-> PyStr(UrlPlain), category |-> PyStr(AI),
          published_date |-> DateTime(0 - Hours(71))])
\* spam with the highest score, 82.00
PoolSpam ==
    Dict([id |-> PyInt(4), source |-> PyStr(Reddit), title |-> PyStr(Title40),
          summary |-> PyStr(SummarySpam), engagement_score |-> PyInt(100),
          url |-> PyStr(UrlRust), category |-> PyStr(Cloud),
          published_date |-> DateTime(0 - Hours(1))])
\* 8 days old: the decaying branch of the recency score
PoolOld ==
    Dict([id |-> PyInt(5), source |-> PyStr(HackerNews), title |-> PyStr(Title18),
          summary |-> PyStr(Summary60), engagement_score |-> PyInt(30),
          url |-> PyStr(UrlPlain), category |-> PyStr(DevOps),
          published_date |-> DateTime(0 - Hours(192))])

RankPool == {PoolDayOld, PoolFresh, PoolPaper, PoolSpam, PoolOld}
TwicePool == {PoolDayOld, PoolFresh, PoolPaper, PoolSpam}

ListsOver(S, n) == UNION {[1..k -> S] : k \in 0..n}

\* the score each dict of the list carries; -1 where it carries none
Scores(store) ==
    [i \in 1..Len(store) |->
        IF "calculated_score" \in DOMAIN store[i] THEN store[i]["calculated_score"].n
        ELSE 0 - 1]

\* what the last call was and returned, kept for the next call to compare
\* (only where prev is in use)
Snapshot ==
    IF prev.op = "off" THEN prev
    ELSE [op |-> outcome.op, exc |-> outcome.exc, clock |-> outcome.clock,
          ranked |-> top_items, scores |-> Scores(content_items)]

InitCalls(lists, history) ==
    /\ now = 0 /\ ticks = 0
    /\ content_items \in lists
    /\ filtered_items = <<>> /\ top_items = <<>> /\ best_item = 0
    /\ outcome = [op |-> "init", exc |-> "", clock |-> 0, n |-> 0]
    /\ prev = [op |-> history, exc |-> "", clock |-> 0, ranked |-> <<>>, scores |-> <<>>]
    /\ db_content = <<>> /\ db_posts = <<>>
    /\ calls = <<>>

InitRank == InitCalls(ListsOver(RankPool, MaxLen), "off")
InitTwice == InitCalls(ListsOver(TwicePool, MaxLenTwice), "none")

\* time passes
Tick ==
    /\ ticks < MaxTicks
    /\ now' = now + TickSeconds
    /\ ticks' = ticks + 1
    /\ UNCHANGED <<calls, content_items, filtered_items, top_items, best_item, outcome,
                   prev, db_content, db_posts>>

\* filtered = filter_content(items); ranked = rank_content(filtered)
RunPipeline ==
    \E filtered \in {filter_content(content_items)} :
    \E ranked \in {rank_content(content_items, filtered.filtered_items, now)} :
        /\ prev' = Snapshot
        /\ IF filtered.exc # ""
           THEN /\ outcome' = [op |-> "pipeline", exc |-> filtered.exc, clock |-> now, n |-> 0,
                                   before |-> Originals(content_items)]
                /\ filtered_items' = <<>> /\ top_items' = <<>>
                /\ UNCHANGED content_items
           ELSE /\ outcome' = [op |-> "pipeline", exc |-> ranked.exc, clock |-> now, n |-> 0,
                                   before |-> Originals(content_items)]
                /\ filtered_items' = filtered.filtered_items
                /\ top_items' = ranked.ranked_items
                /\ content_items' = ranked.store
        /\ UNCHANGED <<calls, now, best_item, db_content, db_posts, ticks>>

\* ranked = rank_content(items)
Rank ==
    \E ranked \in {rank_content(content_items, Refs(content_items), now)} :
        /\ prev' = Snapshot
        /\ outcome' = [op |-> "rank_content", exc |-> ranked.exc, clock |-> now, n |-> 0,
                       before |-> Originals(content_items)]
        /\ filtered_items' = Refs(content_items)
        /\ top_items' = ranked.ranked_items
        /\ content_items' = ranked.store
        /\ UNCHANGED <<calls, now, best_item, db_content, db_posts, ticks>>

\* top = get_top_items(items, n)
TopItems(n) ==
    \E top \in {get_top_items(content_items, Refs(content_items), n, now)} :
        /\ prev' = Snapshot
        /\ outcome' = [op |-> "get_top_items", exc |-> top.exc, clock |-> now, n |-> n,
                       before |-> Originals(content_items)]
        /\ filtered_items' = Refs(content_items)
        /\ top_items' = top.ranked_items
        /\ content_items' = top.store
        /\ UNCHANGED <<calls, now, best_item, db_content, db_posts, ticks>>

NextRank ==
    \/ RunPipeline
    \/ Rank
    \/ \E n \in (0 - 1)..MaxLen : TopItems(n)

SpecRank == InitRank /\ [][NextRank]_vars

NextTwice ==
    \/ Tick
    \/ RunPipeline
    \/ Rank

SpecTwice == InitTwice /\ [][NextTwice]_vars

(***************************************************************************)
(* Claims about ranking                                                    *)
(***************************************************************************)
RangeOf(list) == {list[i] : i \in 1..Len(list)}

IsRankCall == outcome.op \in {"pipeline", "rank_content"} /\ outcome.exc = ""

\* C3: rank_content returns its input reordered (each item once, none
\* added or lost), by composite score from highest to lowest, items of
\* equal score in their input order.  (filtered_items is the list handed to
\* rank_content, top_items the list it returned.)
C3_StableSort ==
    IsRankCall =>
        /\ Len(top_items) = Len(filtered_items)
        /\ \A ref \in RangeOf(filtered_items) :
              Cardinality({a \in 1..Len(top_items) : top_items[a] = ref}) = 1
        /\ \A ref \in RangeOf(top_items) :
              ScoreOf(content_items, ref)
                  = calculate_total_score(content_items[ref], outcome.clock).v
        /\ \A a, b \in 1..Len(top_items) :
              a < b => /\ ScoreOf(content_items, top_items[a])
                            >= ScoreOf(content_items, top_items[b])
                       /\ ScoreOf(content_items, top_items[a])
                            = ScoreOf(content_items, top_items[b])
                          => top_items[a] < top_items[b]

\* three items ranked, the order changed, two of them with the same score
C3_Witness ==
    /\ IsRankCall
    /\ Len(top_items) = 3
    /\ top_items # filtered_items
    /\ \E a, b \in 1..3 :
          /\ a < b
          /\ content_items[top_items[a]] # content_items[top_items[b]]
          /\ ScoreOf(content_items, top_items[a]) = ScoreOf(content_items, top_items[b])

\* C10: get_top_items reports an error when n <= 0, and returns the first
\* min(n, len) items of the ranked order when n >= 1.
C10_TopN ==
    outcome.op = "get_top_items" =>
        LET ranked == rank_content(content_items, Refs(content_items), outcome.clock)
        IN  /\ outcome.n <= 0 => outcome.exc # ""
            /\ outcome.n >= 1 =>
                  /\ outcome.exc = ""
                  /\ top_items = SubSeq(ranked.ranked_items, 1,
                                        Min({outcome.n, Len(content_items)}))

\* the score rank_content gives the item when the list holds nothing else
ScoreAlone(item, clock) ==
    ScoreOf(rank_content(<<Strip(item)>>, <<1>>, clock).store, 1)

RecencyAt(item, clock) == calculate_recency_score(Get(item, "published_date", None), clock).v

IsRepeatedCall ==
    /\ IsRankCall
    /\ prev.op \in {"pipeline", "rank_content"} /\ prev.exc = ""

\* C6 as stated: an item's score is the same whenever it is computed.
C6_SameScoreWhenever ==
    IsRepeatedCall =>
        \A ref \in RangeOf(top_items) \cap RangeOf(prev.ranked) :
            ScoreOf(content_items, ref) = prev.scores[ref]

\* C6 amended: the score of an item is the score it gets when it is ranked
\* alone at the same clock reading, whatever the list and its place in it;
\* and two calls give an item the same score when its recency sub-score is
\* the same at both.
C6_ScoreOfItemAndAge ==
    /\ IsRankCall =>
          \A ref \in RangeOf(top_items) :
              ScoreOf(content_items, ref) = ScoreAlone(content_items[ref], outcome.clock)
    /\ IsRepeatedCall =>
          \A ref \in RangeOf(top_items) \cap RangeOf(prev.ranked) :
              RecencyAt(content_items[ref], prev.clock)
                  = RecencyAt(content_items[ref], outcome.clock)
              => ScoreOf(content_items, ref) = prev.scores[ref]

\* an item second in its list, scored by two calls at different times
C6_Witness ==
    /\ IsRepeatedCall
    /\ prev.clock # outcome.clock
    /\ Len(content_items) = 2
    /\ content_items[1] # content_items[2]
    /\ 2 \in RangeOf(top_items) \cap RangeOf(prev.ranked)
    /\ ScoreOf(content_items, 2) = prev.scores[2]

IsPipelineTwice ==
    /\ outcome.op = "pipeline" /\ outcome.exc = ""
    /\ prev.op = "pipeline" /\ prev.exc = ""

SameAsBefore ==
    /\ top_items = prev.ranked
    /\ \A ref \in RangeOf(top_items) : ScoreOf(content_items, ref) = prev.scores[ref]

\* C7 as stated: the pipeline run twice in a row on a list gives the same
\* output list and the same scores.
C7_PipelineTwiceSame == IsPipelineTwice => SameAsBefore

\* C7 amended: it does when no accepted item's recency sub-score changed
\* between the two runs.
C7_PipelineTwiceSameRecency ==
    (/\ IsPipelineTwice
     /\ \A ref \in RangeOf(prev.ranked) :
           RecencyAt(content_items[ref], prev.clock)
               = RecencyAt(content_items[ref], outcome.clock))
    => SameAsBefore

\* two runs at different times, two items accepted
C7_Witness ==
    /\ IsPipelineTwice
    /\ prev.clock # outcome.clock
    /\ Len(top_items) = 2
    /\ SameAsBefore

(***************************************************************************)
(* SpecShape: the four operations applied to items whose optional fields   *)
(* are missing, None or of the wrong type.  The list holds the item under  *)
(* test and, behind it, one well-formed item.                              *)
(***************************************************************************)
NotADate == <<"n","o","t","-","a","-","d","a","t","e">>
NotANumber == <<"a","b","c">>

ShapeSources == {PyStr(HackerNews), PyStr(ArXiv)}
ShapeSummaries == {Absent, None, PyStr(Summary60)}
ShapeUrls == {Absent, None, PyStr(UrlPlain)}
ShapeEngagements == {Absent, None, PyInt(60), PyStr(NotANumber)}
ShapeCategories == {Absent, None, PyStr(AI)}
ShapeDates == {Absent, None, PyStr(NotADate), DateTime(0 - Hours(30))}

ShapeInputs ==
    {Dict([source |-> so, title |-> PyStr(Title40), summary |-> su, url |-> ur,
           engagement_score |-> en, category |-> ca, published_date |-> pu]) :
        so \in ShapeSources, su \in ShapeSummaries, ur \in ShapeUrls,
        en \in ShapeEngagements, ca \in ShapeCategories, pu \in ShapeDates}

InitShape == InitCalls({<<item, PoolFresh>> : item \in ShapeInputs}, "off")

\* score = calculate_total_score(item), with the sub-scores it is made of
Score ==
    /\ content_items # <<>>
    /\ LET item == content_items[1]
       IN  outcome' =
             [op |-> "calculate_total_score", clock |-> now,
              recency |-> calculate_recency_score(Get(item, "published_date", None), now),
              engagement |-> calculate_engagement_score(Get(item, "engagement_score", PyInt(0))),
              relevance |-> calculate_relevance_score(item),
              score |-> calculate_total_score(item, now)]
    /\ UNCHANGED <<calls, now, content_items, filtered_items, top_items, best_item, prev,
                   db_content, db_posts, ticks>>

\* filtered_items = filter_content(content_items)
Filter ==
    \E filtered \in {filter_content(content_items)} :
        /\ outcome' = [op |-> "filter_content", exc |-> filtered.exc, clock |-> now, n |-> 0,
                       before |-> content_items,
                       returns |-> Returned(filtered),
                       rejected_count |-> filtered.rejected_count]
        /\ content_items' = filtered.items
        /\ filtered_items' = filtered.filtered_items
        /\ UNCHANGED <<calls, now, top_items, best_item, prev, db_content, db_posts, ticks>>

NextShape == Evaluate \/ Score \/ Filter \/ Rank

SpecShape == InitShape /\ [][NextShape]_vars

(***************************************************************************)
(* Claims about the shape of the input                                     *)
(***************************************************************************)
OptionalFields == {"summary", "url", "engagement_score", "category", "published_date"}

IsAbsent(item, key) == key \notin DOMAIN item \/ item[key] = None

\* the value an optional field has when it is of the type the code expects
WellTyped(key, value) ==
    CASE key = "engagement_score" -> IsInt(value)
      [] key = "published_date" -> value.t \in {"datetime", "isostr"}
      [] OTHER -> value.t = "str"

\* the item with each absent optional field set to its empty or zero value
\* (a date has none: it stays absent)
Defaulted(item) ==
    [k \in (DOMAIN item) \cup (OptionalFields \ {"published_date"}) |->
        IF k \in OptionalFields /\ IsAbsent(item, k)
        THEN CASE k = "engagement_score" -> PyInt(0)
               [] k = "published_date" -> None
               [] OTHER -> PyStr(<<>>)
        ELSE item[k]]

\* some optional field is absent and the others are as the code expects
HasAbsentFields(item) ==
    /\ \E k \in OptionalFields : IsAbsent(item, k)
    /\ \A k \in OptionalFields : IsAbsent(item, k) \/ WellTyped(k, item[k])

\* C8: for an item whose summary, url, engagement_score, category or
\* published_date is absent (missing or None), is_high_quality,
\* filter_content, calculate_total_score and rank_content raise nothing and
\* give the result they give for the item with the empty or zero value in
\* the field's place.
C8_TotalOverAbsentFields ==
    HasAbsentFields(Strip(content_items[1])) =>
        LET item == Strip(content_items[1])
            filled == <<Defaulted(item), Strip(content_items[2])>>
        IN  CASE outcome.op = "is_high_quality" ->
                   /\ outcome.verdict.exc = ""
                   /\ outcome.verdict = is_high_quality(Defaulted(item))
              [] outcome.op = "calculate_total_score" ->
                   /\ outcome.score.exc = ""
                   /\ outcome.score = calculate_total_score(Defaulted(item), outcome.clock)
              [] outcome.op = "filter_content" ->
                   /\ outcome.exc = ""
                   /\ filtered_items = filter_content(filled).filtered_items
              [] outcome.op = "rank_content" ->
                   /\ outcome.exc = ""
                   /\ top_items = rank_content(filled, <<1, 2>>, outcome.clock).ranked_items
              [] OTHER -> TRUE

\* the one thing wrong with the item is a published_date that is a string
\* but no timestamp
HasMalformedDate(item) ==
    /\ "published_date" \in DOMAIN item /\ item["published_date"] = PyStr(NotADate)
    /\ \A k \in OptionalFields \ {"published_date"} :
          k \in DOMAIN item /\ WellTyped(k, item[k])

\* the one thing wrong with the item is an engagement_score that is no number
HasNonNumericEngagement(item) ==
    /\ "engagement_score" \in DOMAIN item /\ item["engagement_score"] = PyStr(NotANumber)
    /\ \A k \in OptionalFields \ {"engagement_score"} :
          k \in DOMAIN item /\ WellTyped(k, item[k])

\* C9: a malformed timestamp gives the recency sub-score 0 and a
\* non-numeric engagement gives the engagement sub-score 0, the filter
\* taking it for engagement 0; scoring and filtering raise nothing and go
\* on to the remaining items.
C9_ShapeErrorsRecovered ==
    LET item == Strip(content_items[1])
        zeroed == SetKey(item, "engagement_score", PyInt(0))
    IN  /\ HasMalformedDate(item) =>
              CASE outcome.op = "calculate_total_score" ->
                     outcome.recency = Num(0) /\ outcome.score.exc = ""
                [] outcome.op = "is_high_quality" -> outcome.verdict.exc = ""
                [] outcome.op = "filter_content" ->
                     outcome.exc = "" /\ 2 \in RangeOf(filtered_items)
                [] outcome.op = "rank_content" ->
                     outcome.exc = "" /\ Len(top_items) = 2
                [] OTHER -> TRUE
        /\ HasNonNumericEngagement(item) =>
              CASE outcome.op = "calculate_total_score" ->
                     outcome.engagement = Num(0) /\ outcome.score.exc = ""
                [] outcome.op = "is_high_quality" ->
                     outcome.verdict = is_high_quality(zeroed)
                [] outcome.op = "filter_content" ->
                     outcome.exc = "" /\ 2 \in RangeOf(filtered_items)
                [] outcome.op = "rank_content" ->
                     outcome.exc = "" /\ Len(top_items) = 2
                [] OTHER -> TRUE

(***************************************************************************)
(* ContentDatabase: the tables content_items and generated_posts.  A row   *)
(* is a dict of its columns; the columns content, keywords, fetched_date,  *)
(* posted_date and linkedin_engagement, which nothing modelled here reads, *)
(* are left out.  A                                                        *)
(* timestamp is stored as text and compared as the instant it denotes; the *)
(* database's clock and the ranker's are the same clock.                   *)
(***************************************************************************)
\* what sqlite3 stores for a bound parameter: a datetime object becomes text
Adapted(value) == IF value.t = "datetime" THEN IsoStr(value.n) ELSE value

\* a variant that skips a stored url silently and reports the last rowid
add_content_item_or_ignore(table, item) ==
    IF \E i \in 1..Len(table) : table[i]["url"] = item["url"]
    THEN [exc |-> "", table |-> table, id |-> PyInt(Len(table))]
    ELSE LET row == [id |-> PyInt(Len(table) + 1),
                     title |-> item["title"],
                     url |-> item["url"],
                     source |-> item["source"],
                     category |-> Get(item, "category", None),
                     summary |-> Get(item, "summary", None),
                     engagement_score |-> Get(item, "engagement_score", PyInt(0)),
                     published_date |-> Adapted(Get(item, "published_date", None)),
                     used_for_post |-> PyInt(0)]
         IN  [exc |-> "", table |-> Append(table, row), id |-> row["id"]]

\* add_content_item: the new table, and the rowid or None
add_content_item(table, item) ==
    IF ~({"title", "url", "source"} \subseteq DOMAIN item)
    THEN [exc |-> "KeyError", table |-> table, id |-> None]
    ELSE IF \/ \E k \in {"title", "url", "source"} : item[k] = None     \* NOT NULL
            \/ \E i \in 1..Len(table) : table[i]["url"] = item["url"]   \* UNIQUE
    THEN [exc |-> "", table |-> table, id |-> None]
    ELSE LET row == [id |-> PyInt(Len(table) + 1),
                     title |-> item["title"],
                     url |-> item["url"],
                     source |-> item["source"],
                     category |-> Get(item, "category", None),
                     summary |-> Get(item, "summary", None),
                     engagement_score |-> Get(item, "engagement_score", PyInt(0)),
                     published_date |-> Adapted(Get(item, "published_date", None)),
                     used_for_post |-> PyInt(0)]
         IN  [exc |-> "", table |-> Append(table, row), id |-> row["id"]]

\* AggregatorManager._save_items from item i on
RECURSIVE SaveLoop(_, _, _, _)
SaveLoop(table, items, i, saved_count) ==
    IF i > Len(items) THEN [exc |-> "", table |-> table, saved_count |-> saved_count]
    ELSE CHOOSE done \in
           {IF result.exc # ""
            THEN [exc |-> result.exc, table |-> result.table, saved_count |-> saved_count]
            ELSE SaveLoop(result.table, items, i + 1,
                          IF result.id # None THEN saved_count + 1 ELSE saved_count) :
              result \in {add_content_item(table, items[i])}} : TRUE

save_items(table, items) == SaveLoop(table, items, 1, 0)

\* a variant of the WHERE clause without used_for_post = 0
SelectedUsedOrNot(table, clock, days, category) ==
    {i \in 1..Len(table) :
        /\ table[i]["published_date"].t = "isostr"
        /\ table[i]["published_date"].n >= clock - days * 86400
        /\ Truthy(category) => table[i]["category"] = category}

\* WHERE published_date >= cutoff AND used_for_post = 0 [AND category = ?]
Selected(table, clock, days, category) ==
    {i \in 1..Len(table) :
        /\ table[i]["published_date"].t = "isostr"
        /\ table[i]["published_date"].n >= clock - days * 86400
        /\ table[i]["used_for_post"] = PyInt(0)
        /\ Truthy(category) => table[i]["category"] = category}

\* ORDER BY engagement_score DESC, published_date DESC: row i comes before j
Before(table, i, j) ==
    \/ table[i]["engagement_score"].n > table[j]["engagement_score"].n
    \/ /\ table[i]["engagement_score"].n = table[j]["engagement_score"].n
       /\ table[i]["published_date"].n > table[j]["published_date"].n

\* every order the query may return the rows of S in: rows that the ORDER
\* BY does not tell apart come in any order
RECURSIVE Ordered(_, _)
Ordered(table, S) ==
    IF S = {} THEN {<<>>}
    ELSE UNION {{<<table[i]>> \o rest : rest \in Ordered(table, S \ {i})} :
                  i \in {i \in S : \A j \in S : ~Before(table, j, i)}}

get_recent_content(table, clock, days, category) ==
    Ordered(table, Selected(table, clock, days, category))

\* the ids of the rows with used_for_post = 1
UsedIds(table) ==
    {table[i]["id"] : i \in {i \in 1..Len(table) : table[i]["used_for_post"] = PyInt(1)}}

\* UPDATE content_items SET used_for_post = 1 WHERE id = ?
mark_content_used(table, content_id) ==
    [i \in 1..Len(table) |->
        IF table[i]["id"] = content_id
        THEN [table[i] EXCEPT !["used_for_post"] = PyInt(1)]
        ELSE table[i]]

\* INSERT INTO generated_posts (content, post_type, source_content_id)
save_generated_post(table, post) ==
    Append(table, [id |-> PyInt(Len(table) + 1),
                   content |-> post["content"],
                   post_type |-> post["post_type"],
                   source_content_id |-> Get(post, "source_content_id", None),
                   created_date |-> IsoStr(now),
                   status |-> PyStr(<<"d","r","a","f","t">>)])

\* ORDER BY created_date DESC: posts created in one second come in any order
RECURSIVE NewestFirst(_, _)
NewestFirst(table, S) ==
    IF S = {} THEN {<<>>}
    ELSE UNION {{<<table[i]>> \o rest : rest \in NewestFirst(table, S \ {i})} :
                  i \in {i \in S : \A j \in S :
                            table[j]["created_date"].n <= table[i]["created_date"].n}}

\* SELECT * FROM generated_posts WHERE status = 'draft' ORDER BY created_date DESC
get_drafts(table) ==
    NewestFirst(table, {i \in 1..Len(table) :
                          table[i]["status"] = PyStr(<<"d","r","a","f","t">>)})

\* SELECT * FROM generated_posts WHERE id = ?: the row, or None
get_post_by_id(table, post_id) ==
    IF \E i \in 1..Len(table) : table[i]["id"] = PyInt(post_id)
    THEN table[CHOOSE i \in 1..Len(table) : table[i]["id"] = PyInt(post_id)]
    ELSE None

\* a variant that flips the status of the post
mark_post_posted_or_back(table, post_id) ==
    [i \in 1..Len(table) |->
        IF table[i]["id"] = PyInt(post_id)
        THEN [table[i] EXCEPT !["status"] =
                 IF @ = PyStr(<<"d","r","a","f","t">>)
                 THEN PyStr(<<"p","o","s","t","e","d">>)
                 ELSE PyStr(<<"d","r","a","f","t">>)]
        ELSE table[i]]

\* UPDATE generated_posts SET status = 'posted', ... WHERE id = ?
mark_post_posted(table, post_id) ==
    [i \in 1..Len(table) |->
        IF table[i]["id"] = PyInt(post_id)
        THEN [table[i] EXCEPT !["status"] = PyStr(<<"p","o","s","t","e","d">>)]
        ELSE table[i]]

\* the mark-posted command: the exit status and the table it leaves
mark_posted(table, post_id) ==
    LET post == get_post_by_id(table, post_id)
    IN  IF post = None
        THEN [exit |-> 1, db_posts |-> table]
        ELSE [exit |-> 0, db_posts |-> mark_post_posted(table, post_id)]

\* the three SELECT COUNT(*) FROM generated_posts of get_statistics, and the
\* count of content_items
CountStatus(table, status) ==
    Cardinality({i \in 1..Len(table) : table[i]["status"] = PyStr(status)})

get_statistics(posts_table, content_table) ==
    [total_posts |-> Len(posts_table),
     posted_count |-> CountStatus(posts_table, <<"p","o","s","t","e","d">>),
     draft_count |-> CountStatus(posts_table, <<"d","r","a","f","t">>),
     total_content_items |-> Len(content_table)]

\* Database.connect and Database.close: self.conn is "none" until the first
\* connect; close closes a connection that was made
connect(conn) == "open"

close(conn) == IF conn = "none" THEN conn ELSE "closed"

(***************************************************************************)
(* PostGenerator                                                           *)
(***************************************************************************)
\* the methods class ContentRanker defines
ranker_methods ==
    {"calculate_recency_score", "calculate_engagement_score", "calculate_relevance_score",
     "calculate_total_score", "rank_content", "get_top_items"}

\* a variant that looks for a research paper in the whole list
SelectAmongAll(store, ranked) ==
    LET arxiv_items == {i \in 1..Len(ranked) : store[ranked[i]]["source"] = PyStr(ArXiv)}
    IN  IF arxiv_items # {} THEN ranked[Min(arxiv_items)] ELSE ranked[1]

\* arxiv_items = [item for item in top_items[:5] if item['source'] == 'ArXiv'];
\* best_item = arxiv_items[0] if arxiv_items else top_items[0]
SelectBest(store, ranked) ==
    LET first_five == SliceTo(ranked, 5)
        arxiv_items == {i \in 1..Len(first_five) :
                          store[first_five[i]]["source"] = PyStr(ArXiv)}
    IN  IF arxiv_items # {} THEN first_five[Min(arxiv_items)] ELSE ranked[1]

\* what a run of generate_news_post leaves behind: self.db.connect(), then
\* the body in a try whose finally is self.db.close()
Run(exc, stage, store, filtered, ranked, best, content_table, posts_table) ==
    [exc |-> exc, stage |-> stage, content_items |-> store, filtered_items |-> filtered,
     top_items |-> ranked, best_item |-> best,
     db_content |-> content_table, db_posts |-> posts_table,
     conn |-> close(connect("none"))]

\* steps 4 to 7: the selection is printed, the post generated, saved and
\* the item marked used; post_content is the text generate_with_retry
\* returns, or None
Publish(store, filtered, ranked, best, post_content) ==
    IF "calculate_source_quality_score" \notin ranker_methods
    THEN Run("AttributeError", "selected", store, filtered, ranked, best,
             db_content, db_posts)
    ELSE IF ~Truthy(post_content)
    THEN Run("", "not generated", store, filtered, ranked, best, db_content, db_posts)
    ELSE LET post_data == [content |-> post_content,
                           post_type |-> PyStr(<<"n","e","w","s">>),
                           source_content_id |-> store[best]["id"]]
         IN  Run("", "complete", store, filtered, ranked, best,
                 mark_content_used(db_content, store[best]["id"]),
                 save_generated_post(db_posts, post_data))

\* a variant that stores a post when no item passed the filter
generate_post_regardless(content, post_content) ==
    Run("", "complete", content, <<>>, <<>>, 0, db_content,
        save_generated_post(db_posts, [content |-> post_content,
                                       post_type |-> PyStr(<<"n","e","w","s">>)]))

\* generate_news_post from the list get_recent_content returned
generate_news_post(content, post_content) ==
    IF content = <<>>
    THEN Run("", "no content", content, <<>>, <<>>, 0, db_content, db_posts)
    ELSE LET filtered == filter_content(content)
         IN  IF filtered.exc # ""
             THEN Run(filtered.exc, "filter", content, <<>>, <<>>, 0, db_content, db_posts)
             ELSE IF filtered.filtered_items = <<>>
             THEN Run("", "no quality content", content, <<>>, <<>>, 0, db_content, db_posts)
             ELSE LET top == get_top_items(content, filtered.filtered_items, 10, now)
                  IN  IF top.exc # ""
                      THEN Run(top.exc, "rank", top.store, filtered.filtered_items, <<>>, 0,
                               db_content, db_posts)
                      ELSE Publish(top.store, filtered.filtered_items, top.ranked_items,
                                   SelectBest(top.store, top.ranked_items), post_content)

\* generate_tip_post() with the sample tip; post_content is the text
\* generate_with_retry returns, or None.  The body runs in a try whose
\* finally closes the connection.
generate_tip_post(post_content) ==
    LET conn == connect("none")
        body == IF ~Truthy(post_content)
                THEN [exc |-> "", stage |-> "not generated", db_posts |-> db_posts]
                ELSE LET post_data == [content |-> post_content,
                                       post_type |-> PyStr(<<"t","i","p">>),
                                       source_content_id |-> None]
                     IN  [exc |-> "", stage |-> "complete",
                          db_posts |-> save_generated_post(db_posts, post_data)]
    IN  [exc |-> body.exc, stage |-> body.stage, db_posts |-> body.db_posts,
         conn |-> close(conn)]

\* preview_top_content from the list get_recent_content returned
preview_top_content(content, n) ==
    IF content = <<>>
    THEN Run("", "no content", content, <<>>, <<>>, 0, db_content, db_posts)
    ELSE LET top == get_top_items(content, Refs(content), n, now)
         IN  Run(top.exc, "shown", top.store, Refs(content), top.ranked_items, 0,
                 db_content, db_posts)

(***************************************************************************)
(* Spec: the program.  fetch_all_content saves what the four scrapers      *)
(* returned; generate_news_post and preview_top_content read the database. *)
(***************************************************************************)
Url(c) == UrlPlain \o <<c>>

Scraped(source, title, summary, engagement_score, url, category, age_hours) ==
    [source |-> PyStr(source), title |-> PyStr(title), summary |-> PyStr(summary),
     engagement_score |-> PyInt(engagement_score), url |-> PyStr(url),
     category |-> PyStr(category), published_date |-> DateTime(0 - Hours(age_hours))]

\* two papers the ORDER BY does not tell apart (57.25) and a newer one (77.25)
ArxivItems ==
    <<Scraped(ArXiv, Title26, Summary120, 75, Url("a"), AI, 156),
      Scraped(ArXiv, Title40, Summary120, 75, Url("b"), AI, 156),
      Scraped(ArXiv, Title26, Summary60, 75, Url("c"), AI, 30)>>
\* 83.50; 77.50 until it is more than 24 hours old; 78.25; too little engagement
HackerNewsItems ==
    <<Scraped(HackerNews, Title40, Summary60, 90, Url("d"), DevOps, 10),
      Scraped(HackerNews, Title26, Summary60, 50, Url("e"), Cloud, 24),
      Scraped(HackerNews, Title40, Summary120, 55, Url("f"), DevOps, 10),
      Scraped(HackerNews, Title40, Summary60, 15, Url("g"), AI, 2)>>
\* 79.00; 81.25; the first one's url again
DevToItems ==
    <<Scraped(DevTo, Title26, Summary60, 60, Url("h"), DevOps, 10),
      Scraped(DevTo, Title40, Summary60, 40, Url("i"), Cloud, 10),
      Scraped(DevTo, Title40, Summary120, 70, Url("h"), Cloud, 5)>>
\* spam with the highest score of all
RedditItems ==
    <<Scraped(Reddit, Title40, SummarySpam, 100, UrlRust, AI, 1)>>

\* what the scrapers (arxiv, hackernews, devto, reddit) return in one run; a
\* scraper that fails returns nothing
Scrapes ==
    {<<ArxivItems, HackerNewsItems, DevToItems, RedditItems>>,
     <<ArxivItems, <<>>, DevToItems, <<>>>>,
     <<<<>>, HackerNewsItems, <<>>, RedditItems>>}

Init ==
    /\ now = 0 /\ ticks = 0
    /\ content_items = <<>> /\ filtered_items = <<>> /\ top_items = <<>> /\ best_item = 0
    /\ outcome = [op |-> "init", exc |-> "", clock |-> 0, n |-> 0]
    /\ prev = [op |-> "off", exc |-> "", clock |-> 0, ranked |-> <<>>, scores |-> <<>>]
    /\ db_content = <<>> /\ db_posts = <<>>
    /\ calls = <<>>

\* fetch_all_content: the scrapers' items saved in the order arxiv,
\* hackernews, devto, reddit
FetchAllContent(arxiv_items, hn_items, devto_items, reddit_items) ==
    \E saved \in {save_items(save_items(save_items(save_items(db_content,
                      arxiv_items).table, hn_items).table, devto_items).table,
                      reddit_items)} :
        /\ db_content' = saved.table
        /\ outcome' = [op |-> "fetch_all_content", exc |-> saved.exc, clock |-> now,
                       n |-> Len(saved.table) - Len(db_content)]
        /\ UNCHANGED <<calls, now, content_items, filtered_items, top_items, best_item, prev,
                       db_posts, ticks>>

Finish(op, run, n, category, days_back, post_content) ==
    /\ outcome' = [op |-> op, exc |-> run.exc, clock |-> now, n |-> n,
                   stage |-> run.stage, category |-> category, days_back |-> days_back,
                   post_content |-> post_content,
                   posts_before |-> Len(db_posts), used_before |-> UsedIds(db_content),
                   conn |-> run.conn]
    /\ content_items' = run.content_items
    /\ filtered_items' = run.filtered_items
    /\ top_items' = run.top_items
    /\ best_item' = run.best_item
    /\ db_content' = run.db_content
    /\ db_posts' = run.db_posts
    /\ UNCHANGED <<calls, now, prev, ticks>>

GenerateNewsPost(category, days_back, post_content) ==
    \E content \in get_recent_content(db_content, now, days_back, category) :
        \E run \in {generate_news_post(content, post_content)} :
            Finish("generate_news_post", run, 10, category, days_back, post_content)

PreviewTopContent(days_back, n) ==
    \E content \in get_recent_content(db_content, now, days_back, None) :
        \E run \in {preview_top_content(content, n)} :
            Finish("preview_top_content", run, n, None, days_back, None)

PostText == <<"p","o","s","t">>

Next ==
    \/ Tick
    \/ \E scraped \in Scrapes :
          FetchAllContent(scraped[1], scraped[2], scraped[3], scraped[4])
    \/ \E category \in {None, PyStr(AI)}, days_back \in {1, 7},
          post_content \in {None, PyStr(PostText)} :
          GenerateNewsPost(category, days_back, post_content)
    \/ \E days_back \in {1, 7}, n \in {3, 10} : PreviewTopContent(days_back, n)

Spec == Init /\ [][Next]_vars

(***************************************************************************)
(* Claims about generate_news_post and preview_top_content                 *)
(***************************************************************************)
IsArXiv(ref) == content_items[ref]["source"] = PyStr(ArXiv)

\* C1: generate_news_post selects the first ArXiv item among the first 5
\* of the ranked list if there is one, else the first item of the ranked
\* list; an ArXiv item ranked 6th or lower changes nothing.
C1_Selection ==
    (outcome.op = "generate_news_post" /\ top_items # <<>>) =>
        LET among_five == {i \in 1..Min({5, Len(top_items)}) : IsArXiv(top_items[i])}
        IN  /\ \A i \in 1..Len(top_items) :
                  ScoreOf(content_items, top_items[1]) >= ScoreOf(content_items, top_items[i])
            /\ among_five # {} => best_item = top_items[Min(among_five)]
            /\ among_five = {} => best_item = top_items[1]

\* the paper selected is not the top item, and another paper is ranked
\* behind it
C1_Witness ==
    /\ outcome.op = "generate_news_post"
    /\ Len(top_items) >= 5
    /\ ~IsArXiv(top_items[1])
    /\ \E i \in 2..5 :
          /\ best_item = top_items[i]
          /\ IsArXiv(top_items[i])
          /\ \E j \in (i + 1)..Len(top_items) : IsArXiv(top_items[j])

\* C4: in generate_news_post and in preview_top_content every item that is
\* scored, ranked or shown has been accepted by the quality filter.
C4_RankedItemsWereAccepted ==
    outcome.op \in {"generate_news_post", "preview_top_content"} =>
        \A ref \in 1..Len(content_items) :
            ("calculated_score" \in DOMAIN content_items[ref] \/ ref \in RangeOf(top_items))
            => is_high_quality(Strip(content_items[ref])).ok

\* C5: when an item passes the filter and the generation returns text,
\* generate_news_post completes having stored exactly one post, a draft
\* whose source_content_id is the selected item's id, and having marked
\* that item, and no other, as used.
C5_StoresPostAndMarksUsed ==
    (/\ outcome.op = "generate_news_post"
     /\ filtered_items # <<>>
     /\ outcome.post_content # None)
    => /\ outcome.exc = ""
       /\ outcome.stage = "complete"
       /\ Len(db_posts) = outcome.posts_before + 1
       /\ db_posts[Len(db_posts)]["status"] = PyStr(<<"d","r","a","f","t">>)
       /\ db_posts[Len(db_posts)]["source_content_id"] = content_items[best_item]["id"]
       /\ content_items[best_item]["id"] \notin outcome.used_before
       /\ UsedIds(db_content) = outcome.used_before \cup {content_items[best_item]["id"]}

(***************************************************************************)
(* SpecEmpty: the operations on a list that may be empty, and              *)
(* generate_news_post on a database that holds nothing, or nothing the     *)
(* filter accepts.  The list is the caller's: empty at first, then what    *)
(* the last get_recent_content returned.                                   *)
(***************************************************************************)
NextEmpty ==
    \/ Filter
    \/ Rank
    \/ RunPipeline
    \/ \E n \in {1, 5} : TopItems(n)
    \/ Tick
    \/ \E hn_items \in {<<>>, HackerNewsItems} :
          FetchAllContent(<<>>, hn_items, <<>>, RedditItems)
    \/ \E category \in {None, PyStr(AI)}, days_back \in {1, 7},
          post_content \in {None, PyStr(PostText)} :
          GenerateNewsPost(category, days_back, post_content)

SpecEmpty == Init /\ [][NextEmpty]_vars

\* C11: filter_content, rank_content and get_top_items return an empty
\* list for an empty list and raise nothing; generate_news_post, when the
\* pool is empty or the filter rejects all of it, returns None: nothing is
\* raised, generated, stored or marked used.
C11_EmptyIsNoError ==
    /\ (outcome.op \in {"filter_content", "rank_content", "get_top_items", "pipeline"}
        /\ content_items = <<>>)
       => /\ outcome.exc = ""
          /\ outcome.op \in {"filter_content", "pipeline"} => filtered_items = <<>>
          /\ outcome.op \in {"rank_content", "get_top_items", "pipeline"} => top_items = <<>>
    /\ (outcome.op = "generate_news_post" /\ filtered_items = <<>>)
       => /\ outcome.exc = ""
          /\ outcome.stage \in {"no content", "no quality content"}
          /\ outcome.stage = "no content" <=> content_items = <<>>
          /\ top_items = <<>> /\ best_item = 0
          /\ Len(db_posts) = outcome.posts_before
          /\ UsedIds(db_content) = outcome.used_before

\* text would be generated, the pool holds items and the filter rejects
\* them all
C11_Witness ==
    /\ outcome.op = "generate_news_post"
    /\ outcome.post_content # None
    /\ Len(content_items) >= 2
    /\ filtered_items = <<>>
    /\ outcome.stage = "no quality content"

(***************************************************************************)
(* SpecFilterAll: is_high_quality, filter_content and get_quality_report   *)
(* applied to one list of items, some of them rejected, one without a      *)
(* source.                                                                 *)
(***************************************************************************)
MaxLenFilter == 3   \* longest input list of SpecFilterAll

\* a Hacker News item with too little engagement
PoolLowNews ==
    Dict([id |-> PyInt(6), source |-> PyStr(HackerNews), title |-> PyStr(Title40),
          summary |-> PyStr(Summary60), engagement_score |-> PyInt(15),
          url |-> PyStr(UrlPlain), category |-> PyStr(AI),
          published_date |-> DateTime(0 - Hours(2))])
\* an item that names no source, its title too short
PoolNoSource ==
    Dict([id |-> PyInt(7), source |-> Absent, title |-> PyStr(Title10),
          summary |-> PyStr(Summary60), engagement_score |-> PyInt(60),
          url |-> PyStr(UrlPlain), category |-> PyStr(AI),
          published_date |-> DateTime(0 - Hours(2))])

FilterPool == {PoolDayOld, PoolFresh, PoolSpam, PoolLowNews, PoolNoSource}

InitFilterAll == InitCalls(ListsOver(FilterPool, MaxLenFilter), "off")

\* report = get_quality_report(content_items)
QualityReport ==
    \E reported \in {get_quality_report(content_items)} :
        /\ outcome' = [op |-> "get_quality_report", exc |-> reported.exc, clock |-> now,
                       n |-> 0, before |-> content_items, report |-> reported.report]
        /\ content_items' = reported.items
        /\ UNCHANGED <<calls, now, filtered_items, top_items, best_item, prev,
                       db_content, db_posts, ticks>>

NextFilterAll == Evaluate \/ Filter \/ QualityReport

SpecFilterAll == InitFilterAll /\ [][NextFilterAll]_vars

(***************************************************************************)
(* Claims about filter_content                                             *)
(***************************************************************************)
\* the positions of the list whose item the filter accepts
Accepted(items) == {i \in 1..Len(items) : is_high_quality(items[i]).ok}

\* the sum of the counts of a map
RECURSIVE Total(_)
Total(counts) ==
    IF DOMAIN counts = {} THEN 0
    ELSE LET k == CHOOSE k \in DOMAIN counts : TRUE
         IN  counts[k] + Total([j \in (DOMAIN counts) \ {k} |-> counts[j]])

\* C12: filter_content returns exactly the accepted items of its input,
\* each once and in the input's order; what it counts as rejected and what
\* it returns add up to the input.
C12_Partition ==
    (outcome.op = "filter_content" /\ outcome.exc = "") =>
        /\ RangeOf(outcome.returns.filtered_items) = Accepted(outcome.before)
        /\ Len(outcome.returns.filtered_items) = Cardinality(Accepted(outcome.before))
        /\ \A a, b \in 1..Len(outcome.returns.filtered_items) :
              a < b => outcome.returns.filtered_items[a] < outcome.returns.filtered_items[b]
        /\ Len(outcome.returns.filtered_items) + Total(outcome.rejected_count)
              = Len(outcome.before)

\* a rejected item between two accepted ones
C12_Witness ==
    /\ outcome.op = "filter_content"
    /\ Len(outcome.before) = 3
    /\ outcome.returns.filtered_items = <<1, 3>>
    /\ outcome.before[1] # outcome.before[3]

\* C13: is_high_quality, filter_content and get_quality_report leave the
\* input list, and every field of every item in it, as they were.
C13_FilterLeavesInput ==
    outcome.op \in {"is_high_quality", "filter_content", "get_quality_report"} =>
        content_items = outcome.before

\* a report on three items, some accepted and some rejected
C13_Witness ==
    /\ outcome.op = "get_quality_report"
    /\ Len(outcome.before) = 3
    /\ outcome.report.high_quality = 1
    /\ Total(outcome.report.rejection_reasons) = 2
    /\ content_items = outcome.before

\* the source an item is counted under
SourceLabel(item) == Get(item, "source", PyStr(Unknown))

\* C15: filter_content returns, with the accepted list, a map that gives
\* for each source the number of its rejected items, items without a
\* source under one fallback label; the counts add up to the input length
\* less the accepted length.
C15_ReturnsRejectionCounts ==
    (outcome.op = "filter_content" /\ outcome.exc = "") =>
        /\ "rejected_count" \in DOMAIN outcome.returns
        /\ \A i \in 1..Len(outcome.before) :
              i \notin Accepted(outcome.before) =>
                 /\ SourceLabel(outcome.before[i]) \in DOMAIN outcome.returns.rejected_count
                 /\ outcome.returns.rejected_count[SourceLabel(outcome.before[i])]
                      = Cardinality({j \in (1..Len(outcome.before)) \ Accepted(outcome.before) :
                                       SourceLabel(outcome.before[j])
                                         = SourceLabel(outcome.before[i])})
        /\ Total(outcome.returns.rejected_count)
              = Len(outcome.before) - Len(outcome.returns.filtered_items)

(***************************************************************************)
(* Claims about what ranking changes                                       *)
(***************************************************************************)
\* C14: after rank_content or get_top_items the input list holds the same
\* items in the same order, each with its title, summary, source,
\* category, url, engagement_score and published_date as before; the one
\* change to an item is the score attached to it.
C14_RankingKeepsFields ==
    outcome.op \in {"rank_content", "get_top_items"} =>
        /\ Len(content_items) = Len(outcome.before)
        /\ \A i \in 1..Len(content_items) :
              /\ Strip(content_items[i]) = outcome.before[i]
              /\ outcome.exc = "" => "calculated_score" \in DOMAIN content_items[i]

\* three different items, returned in another order than they came in
C14_Witness ==
    /\ outcome.op = "get_top_items" /\ outcome.n = 3
    /\ Len(content_items) = 3
    /\ top_items[1] = 3
    /\ Cardinality(RangeOf(outcome.before)) = 3
    /\ Originals(content_items) = outcome.before

(***************************************************************************)
(* SpecConcurrent: two invocations of the pipeline (filter_content, then   *)
(* rank_content) on lists of their own, through the same QualityFilter and *)
(* ContentRanker, their steps interleaved: one step is one turn of a loop  *)
(* or the sort.  Each invocation has its list, its loop variables and its  *)
(* results; the two share the tables, which are read, and the clock.       *)
(***************************************************************************)
Call(list) ==
    [items |-> list, pc |-> "filter", i |-> 1, exc |-> "",
     filtered_items |-> <<>>, clocks |-> <<>>, ranked_items |-> <<>>]

\* one turn of filter_content's loop in invocation k
filter_step(all, k) ==
    LET call == all[k]
        verdict == is_high_quality(call.items[call.i])
    IN  [all EXCEPT ![k] =
           IF verdict.exc # "" THEN [call EXCEPT !.pc = "raised", !.exc = verdict.exc]
           ELSE IF verdict.ok
           THEN [call EXCEPT !.i = @ + 1, !.filtered_items = Append(@, call.i)]
           ELSE [call EXCEPT !.i = @ + 1]]

\* a variant in which the invocations write the score through to every
\* list at hand
score_step_shared(all, k, clock) ==
    LET call == all[k]
        ref == call.filtered_items[call.i]
        score == calculate_total_score(call.items[ref], clock)
    IN  [c \in 1..Len(all) |->
           LET marked == [p \in 1..Len(all[c].items) |->
                            IF p = ref
                            THEN SetKey(all[c].items[p], "calculated_score", PyFloat(score.v))
                            ELSE all[c].items[p]]
           IN  IF c = k
               THEN [call EXCEPT !.i = @ + 1, !.clocks = Append(@, clock), !.items = marked]
               ELSE [all[c] EXCEPT !.items = marked]]

\* one turn of rank_content's loop in invocation k, the clock read in it
score_step(all, k, clock) ==
    LET call == all[k]
        ref == call.filtered_items[call.i]
        score == calculate_total_score(call.items[ref], clock)
    IN  [all EXCEPT ![k] =
           IF score.exc # "" THEN [call EXCEPT !.pc = "raised", !.exc = score.exc]
           ELSE [call EXCEPT !.i = @ + 1, !.clocks = Append(@, clock),
                             !.items[ref] = SetKey(@, "calculated_score", PyFloat(score.v))]]

\* the sorted(...) of invocation k
sort_step(all, k) ==
    LET call == all[k]
    IN  [all EXCEPT ![k] =
           [call EXCEPT !.pc = "done",
                        !.ranked_items = SortedByScore(call.items, call.filtered_items,
                                                       Len(call.filtered_items))]]

ConcurrentLists ==
    {<<>>, <<PoolDayOld, PoolFresh>>, <<PoolSpam, PoolPaper, PoolFresh>>}

InitConcurrent ==
    /\ now = 0 /\ ticks = 0
    /\ content_items = <<>> /\ filtered_items = <<>> /\ top_items = <<>> /\ best_item = 0
    /\ outcome = [op |-> "init", exc |-> "", clock |-> 0, n |-> 0]
    /\ prev = [op |-> "off", exc |-> "", clock |-> 0, ranked |-> <<>>, scores |-> <<>>]
    /\ db_content = <<>> /\ db_posts = <<>>
    /\ calls \in {<<Call(a), Call(b)>> : a, b \in ConcurrentLists}

Step(changed) ==
    /\ calls' = changed
    /\ UNCHANGED <<now, content_items, filtered_items, top_items, best_item, outcome,
                   prev, db_content, db_posts, ticks>>

FilterStep(k) ==
    /\ calls[k].pc = "filter" /\ calls[k].i <= Len(calls[k].items)
    /\ Step(filter_step(calls, k))

\* filter_content returns, rank_content begins
FilterReturn(k) ==
    /\ calls[k].pc = "filter" /\ calls[k].i > Len(calls[k].items)
    /\ Step([calls EXCEPT ![k] = [@ EXCEPT !.pc = "score", !.i = 1]])

ScoreStep(k) ==
    /\ calls[k].pc = "score" /\ calls[k].i <= Len(calls[k].filtered_items)
    /\ Step(score_step(calls, k, now))

SortStep(k) ==
    /\ calls[k].pc = "score" /\ calls[k].i > Len(calls[k].filtered_items)
    /\ Step(sort_step(calls, k))

NextConcurrent ==
    \/ Tick
    \/ \E k \in 1..2 : FilterStep(k)
    \/ \E k \in 1..2 : FilterReturn(k)
    \/ \E k \in 1..2 : ScoreStep(k)
    \/ \E k \in 1..2 : SortStep(k)

SpecConcurrent == InitConcurrent /\ [][NextConcurrent]_vars

\* C16: however the steps of two invocations interleave, what an
\* invocation returns is what the pipeline makes of its own list alone:
\* the accepted items of that list, each with the score of the item at the
\* clock reading of its turn, sorted by that score; when the clock did not
\* advance during the invocation, exactly the result of filter_content and
\* rank_content run one after the other on the list.
C16_InterleavingIsHarmless ==
    \A k \in 1..Len(calls) :
        calls[k].pc = "done" =>
            LET call == calls[k]
                own == Originals(call.items)
                alone == filter_content(own)
            IN  /\ call.exc = ""
                /\ call.filtered_items = alone.filtered_items
                /\ \A p \in 1..Len(call.items) :
                      p \notin RangeOf(call.filtered_items)
                      => "calculated_score" \notin DOMAIN call.items[p]
                /\ \A j \in 1..Len(call.filtered_items) :
                      ScoreOf(call.items, call.filtered_items[j])
                        = calculate_total_score(own[call.filtered_items[j]], call.clocks[j]).v
                /\ call.ranked_items
                     = SortedByScore(call.items, call.filtered_items, Len(call.filtered_items))
                /\ \A t \in 0..now :
                      (\A j \in 1..Len(call.clocks) : call.clocks[j] = t)
                      => LET ranked == rank_content(own, alone.filtered_items, t)
                         IN  /\ call.ranked_items = ranked.ranked_items
                             /\ Scores(call.items) = Scores(ranked.store)

\* both invocations scored an item, the clock advanced, both scored
\* another: their turns alternated
C16_Witness ==
    /\ Len(calls) = 2
    /\ calls[1].pc = "done" /\ calls[2].pc = "done"
    /\ calls[1].clocks = <<0, TickSeconds>>
    /\ calls[2].clocks = <<0, TickSeconds>>
    /\ calls[1].items # calls[2].items

(***************************************************************************)
(* SpecScore: calculate_total_score and its three sub-scores applied to    *)
(* one item, and rank_content to the list of that item, while the clock    *)
(* runs.  The item's engagement, age and text are drawn from the values at *)
(* and around the branches of the sub-scores.                              *)
(***************************************************************************)
ScoreEngagements ==
    {Absent, None} \cup {PyInt(k) : k \in {0 - 5, 0, 1, 9, 10, 11, 49, 50, 51, 99, 100, 101,
                                           108, 109, 199, 5000}}

\* ages at clock 0, in seconds: the ends of the steps and a second past
\* them, then the decaying branch up to four weeks
ScoreAges ==
    {0 - Hours(1), 0, Hours(24) - 2}
    \cup {Hours(24 * d) + s : d \in 1..7, s \in {0, 1}}
    \cup {Hours(168) + 60, Hours(169), Hours(192), Hours(336), Hours(504), Hours(672) - 4}

ScoreDates ==
    {Absent, None} \cup {DateTime(0 - age) : age \in ScoreAges}

TextPlain ==
    [title |-> PyStr(<<"W","e","e","k","l","y"," ","n","o","t","e","s">>),
     summary |-> PyStr(<<"N","o","t","h","i","n","g"," ","t","o"," ","s","e","e"," ","h","e","r","e">>),
     category |-> PyStr(<<"A","I">>)]
TextUpper ==
    [title |-> PyStr(<<"G","P","T"," ","N","e","w","s">>),
     summary |-> PyStr(<<"N","o","t","h","i","n","g"," ","t","o"," ","s","e","e"," ","h","e","r","e">>),
     category |-> PyStr(<<"A","I">>)]
TextJoined ==
    [title |-> PyStr(<<"O","n"," ","m","a","c","h","i","n","e">>),
     summary |-> PyStr(<<"l","e","a","r","n","i","n","g"," ","t","o","d","a","y">>),
     category |-> PyStr(<<"A","I">>)]
TextRepeated ==
    [title |-> PyStr(<<"g","p","t"," ","g","p","t"," ","g","p","t">>),
     summary |-> PyStr(<<"a","n","d"," ","g","p","t">>),
     category |-> PyStr(<<"A","I">>)]
TextThree ==
    [title |-> PyStr(<<"N","e","u","r","a","l"," ","t","r","a","n","s","f","o","r","m","e","r">>),
     summary |-> PyStr(<<"a"," ","n","e","w"," ","L","L","M">>),
     category |-> PyStr(<<"A","I">>)]
TextFive ==
    [title |-> PyStr(<<"N","e","u","r","a","l"," ","t","r","a","n","s","f","o","r","m","e","r">>),
     summary |-> PyStr(<<"a"," ","n","e","w"," ","L","L","M"," ","f","r","o","m"," ","d","e","e","p"," ","l","e","a","r","n","i","n","g",","," ","G","P","T">>),
     category |-> PyStr(<<"A","I">>)]
TextSix ==
    [title |-> PyStr(<<"N","e","u","r","a","l"," ","t","r","a","n","s","f","o","r","m","e","r"," ","m","o","d","e","l">>),
     summary |-> PyStr(<<"a"," ","n","e","w"," ","L","L","M"," ","f","r","o","m"," ","d","e","e","p"," ","l","e","a","r","n","i","n","g",","," ","G","P","T">>),
     category |-> PyStr(<<"A","I">>)]
TextAll ==
    [title |-> PyStr(<<"A","I",":"," ","a","r","t","i","f","i","c","i","a","l"," ","i","n","t","e","l","l","i","g","e","n","c","e",","," ","m","a","c","h","i","n","e"," ","l","e","a","r","n","i","n","g">>),
     summary |-> PyStr(<<"d","e","e","p"," ","l","e","a","r","n","i","n","g"," ","n","e","u","r","a","l"," ","g","p","t"," ","l","l","m"," ","t","r","a","n","s","f","o","r","m","e","r"," ","m","l"," ","m","o","d","e","l">>),
     category |-> PyStr(<<"A","I">>)]
TextUnknown ==
    [title |-> PyStr(<<"N","e","u","r","a","l"," ","t","r","a","n","s","f","o","r","m","e","r"," ","m","o","d","e","l">>),
     summary |-> PyStr(<<"a"," ","n","e","w"," ","L","L","M"," ","f","r","o","m"," ","d","e","e","p"," ","l","e","a","r","n","i","n","g",","," ","G","P","T">>),
     category |-> PyStr(<<"S","e","c","u","r","i","t","y">>)]
TextNoCategory ==
    [title |-> PyStr(<<"N","e","u","r","a","l"," ","t","r","a","n","s","f","o","r","m","e","r"," ","m","o","d","e","l">>),
     summary |-> PyStr(<<"a"," ","n","e","w"," ","L","L","M"," ","f","r","o","m"," ","d","e","e","p"," ","l","e","a","r","n","i","n","g",","," ","G","P","T">>),
     category |-> Absent]
TextNoneCategory ==
    [title |-> PyStr(<<"N","e","u","r","a","l"," ","t","r","a","n","s","f","o","r","m","e","r"," ","m","o","d","e","l">>),
     summary |-> PyStr(<<"a"," ","n","e","w"," ","L","L","M"," ","f","r","o","m"," ","d","e","e","p"," ","l","e","a","r","n","i","n","g",","," ","G","P","T">>),
     category |-> None]
TextCloud ==
    [title |-> PyStr(<<"K","u","b","e","r","n","e","t","e","s"," ","i","n"," ","t","h","e"," ","c","l","o","u","d">>),
     summary |-> PyStr(<<"N","e","u","r","a","l"," ","t","r","a","n","s","f","o","r","m","e","r"," ","m","o","d","e","l">>),
     category |-> PyStr(<<"C","l","o","u","d">>)]

ScoreTexts ==
    {TextPlain, TextUpper, TextJoined, TextRepeated, TextThree, TextFive, TextSix, TextAll,
     TextUnknown, TextNoCategory, TextNoneCategory, TextCloud}

ScoreItems(texts, engagements, dates) ==
    {Dict([id |-> PyInt(1), source |-> PyStr(HackerNews), url |-> PyStr(UrlPlain),
           title |-> te.title, summary |-> te.summary, category |-> te.category,
           engagement_score |-> en, published_date |-> pu]) :
        te \in texts, en \in engagements, pu \in dates}

\* every value of one field with the least, the greatest and one
\* fractional value of the other two sub-scores
FewTexts == {TextPlain, TextSix}
FewEngagements == {Absent, PyInt(49), PyInt(199)}
FewDates == {Absent, DateTime(0), DateTime(0 - Hours(192))}

ScoreInputs ==
    ScoreItems(ScoreTexts, FewEngagements, FewDates)
    \cup ScoreItems(FewTexts, ScoreEngagements, FewDates)
    \cup ScoreItems(FewTexts, FewEngagements, ScoreDates)

InitScore == InitCalls({<<item>> : item \in ScoreInputs}, "off")

NextScore == Score \/ Rank \/ Tick

SpecScore == InitScore /\ [][NextScore]_vars

(***************************************************************************)
(* Claims about the sub-scores                                             *)
(***************************************************************************)
IsScoreCall == outcome.op = "calculate_total_score"

\* the raw engagement calculate_total_score passes on
RawEngagement == Get(content_items[1], "engagement_score", PyInt(0))

\* the values named for the seams, in units of 1/10000
EngagementSeams ==
    [k \in {0, 9, 10, 49, 50, 99, 100, 199} |->
        CASE k = 0 -> 0
          [] k = 9 -> 450000
          [] k = 10 -> 500000
          [] k = 49 -> 987500
          [] k = 50 -> 750000
          [] k = 99 -> 995000
          [] k = 100 -> 900000
          [] k = 199 -> 1000000]

\* C17: the engagement sub-score is 0 at 0, 45 at 9, 50 at 10, 98.75 at
\* 49, 75 at 50 (the third branch), 99.5 at 99, 90 at 100 (the logarithm
\* of 1) and 100 at 199; a negative, None or absent engagement gives 0.
C17_EngagementSeams ==
    IsScoreCall =>
        /\ (IsInt(RawEngagement) /\ RawEngagement.n \in DOMAIN EngagementSeams)
           => outcome.engagement = Num(EngagementSeams[RawEngagement.n])
        /\ ("engagement_score" \notin DOMAIN content_items[1]
            \/ RawEngagement = None
            \/ (IsInt(RawEngagement) /\ RawEngagement.n < 0))
           => outcome.engagement = Num(0)

\* 50 scored, as 75
C17_Witness ==
    /\ IsScoreCall
    /\ RawEngagement = PyInt(50)
    /\ outcome.engagement = Num(750000)

\* the published_date calculate_total_score passes on
RawDate == Get(content_items[1], "published_date", None)

\* C18: the recency sub-score is 100 up to and including an age of 24
\* hours and 10 less for every further day begun, down to 40 up to and
\* including 168 hours; above 168 hours it is below 40, not negative, and
\* no higher than that of any younger item; without a published_date it
\* is 0.
C18_RecencySteps ==
    IsScoreCall =>
        /\ RawDate = None => outcome.recency = Num(0)
        /\ RawDate.t = "datetime" =>
              LET age == outcome.clock - RawDate.n
                  days_begun == Max({0, (age - 1) \div 86400})
              IN  /\ outcome.recency.exc = ""
                  /\ age <= Hours(168)
                     => outcome.recency.v = 1000000 - 100000 * days_begun
                  /\ age > Hours(168)
                     => outcome.recency.v < 400000 /\ outcome.recency.v >= 0
                  /\ \A other \in ScoreDates :
                        (other.t = "datetime" /\ other.n <= RawDate.n)
                        => calculate_recency_score(other, outcome.clock).v
                             <= outcome.recency.v

\* an item 168 hours old when the clock started, scored later
C18_Witness ==
    /\ IsScoreCall
    /\ RawDate = DateTime(0 - Hours(168))
    /\ outcome.clock > 0
    /\ outcome.recency.v > 0 /\ outcome.recency.v < 400000

\* sub-scores within [0, 100]
InRange(sub_score) == sub_score.exc = "" /\ sub_score.v \in 0..1000000

\* score, in hundredths, is the weighted sum of the three sub-scores
\* (units of 1/10000, weights in tenths) rounded to two decimals
IsRoundedSum(score, recency, engagement, relevance) ==
    LET sum == 4 * recency + 3 * engagement + 3 * relevance
    IN  /\ score * 1000 - sum \in (0 - 500)..500
        /\ score \in 0..10000

\* C19: the recency, engagement and relevance sub-scores of an item are
\* each within [0, 100]; the composite score is 0.4 * recency + 0.3 *
\* engagement + 0.3 * relevance rounded to two decimals, within [0, 100];
\* and that is the score of every item rank_content returns.
C19_ScoresInRange ==
    /\ IsScoreCall =>
          /\ InRange(outcome.recency) /\ InRange(outcome.engagement)
          /\ InRange(outcome.relevance)
          /\ outcome.score.exc = ""
          /\ IsRoundedSum(outcome.score.v, outcome.recency.v, outcome.engagement.v,
                          outcome.relevance.v)
    /\ outcome.op = "rank_content" =>
          /\ outcome.exc = ""
          /\ \A ref \in RangeOf(top_items) :
                LET item == outcome.before[ref]
                IN  IsRoundedSum(ScoreOf(content_items, ref),
                                 calculate_recency_score(RawDate, outcome.clock).v,
                                 calculate_engagement_score(RawEngagement).v,
                                 calculate_relevance_score(item).v)

\* a ranked item whose weighted sum had more than two decimals
C19_Witness ==
    /\ outcome.op = "rank_content"
    /\ top_items = <<1>>
    /\ ScoreOf(content_items, 1) * 1000
         # 4 * calculate_recency_score(RawDate, outcome.clock).v
           + 3 * calculate_engagement_score(RawEngagement).v
           + 3 * calculate_relevance_score(outcome.before[1]).v

\* word stands somewhere in text
Occurs(word, text) ==
    \E i \in 1..(Len(text) - Len(word) + 1) : SubSeq(text, i, i + Len(word) - 1) = word

\* the keywords of the item's category that stand in its lowercased title,
\* a space, and its lowercased summary; none for a category without table
MatchedKeywords(item) ==
    LET category == Get(item, "category", None)
        text == Lower(item.title.s) \o <<" ">> \o Lower(item.summary.s)
    IN  IF category.t = "str"
           /\ category.s \in {AI, DevOps, Cloud, DataScience}
        THEN {keyword \in RangeOf(relevance_keywords(category)) : Occurs(keyword, text)}
        ELSE {}

\* C20: the relevance sub-score is 50 plus 10 for each keyword of the
\* category's table found in the lowercased title, a space and the
\* lowercased summary, the bonus at most 50: 100 with six or more
\* keywords, 50 for an item without category or with a category that has
\* no table.
C20_RelevanceOfKeywords ==
    IsScoreCall =>
        LET item == content_items[1]
            k == Cardinality(MatchedKeywords(item))
        IN  /\ outcome.relevance = Num((50 + Min({50, 10 * k})) * 10000)
            /\ k >= 6 => outcome.relevance = Num(1000000)
            /\ ("category" \notin DOMAIN item
                \/ item.category = None
                \/ item.category = TextUnknown.category)
               => outcome.relevance = Num(500000)

\* six keywords of the AI table in the text, scored 100
C20_Witness ==
    /\ IsScoreCall
    /\ Cardinality(MatchedKeywords(content_items[1])) = 6
    /\ outcome.relevance = Num(1000000)

(***************************************************************************)
(* SpecSource: rank_content and the pipeline applied to a list of two      *)
(* items that differ in their source at most.                              *)
(***************************************************************************)
SourcePairs ==
    {<<item, SetKey(item, "source", source)>> :
        item \in RankPool, source \in FilterSources}

InitSource == InitCalls(SourcePairs, "off")

NextSource == Rank \/ RunPipeline \/ Tick

SpecSource == InitSource /\ [][NextSource]_vars

\* the item without its source (and without the score ranking gave it)
ButSource(item) == [k \in (DOMAIN item) \ {"source", "calculated_score"} |-> item[k]]

\* C21: items that differ in nothing but their source, scored in one call,
\* have the same composite score.
C21_SourceNotInScore ==
    IsRankCall =>
        \A i, j \in RangeOf(top_items) :
            ButSource(content_items[i]) = ButSource(content_items[j])
            => ScoreOf(content_items, i) = ScoreOf(content_items, j)

\* a research paper and the same item from another source, both ranked
C21_Witness ==
    /\ outcome.op = "rank_content" /\ outcome.exc = ""
    /\ Len(top_items) = 2
    /\ content_items[1].source # content_items[2].source
    /\ PyStr(ArXiv) \in {content_items[1].source, content_items[2].source}
    /\ ScoreOf(content_items, 1) = ScoreOf(content_items, 2)

(***************************************************************************)
(* SpecGate: is_high_quality applied to one item whose fields sit at and   *)
(* around the limits of the engagement, spam and Reddit rules.             *)
(***************************************************************************)
Title29 == Rep("t", 29)
Title30 == Rep("t", 30)
\* 30 characters, the last five the first word of a spam phrase
TitleClick == Rep("t", 25) \o <<"C","l","i","c","k">>
Summary99 == Rep("s", 99)
Summary100 == Rep("s", 100)
\* 64 characters, the first four the second word of that phrase
SummaryHere == <<"h","e","r","e">> \o Rep("s", 60)
UrlFunny == <<"h","t","t","p","s",":","/","/","r","e","d","d","i","t",".","c","o","m","/","r","/","F","U","N","N","Y","/","c","o","m","m","e","n","t","s","/","1">>

GateTitles == {PyStr(Title10), PyStr(Title29), PyStr(Title30), PyStr(TitleSpam),
               PyStr(TitleClick)}
GateSummaries == {Absent, PyStr(Summary60), PyStr(Summary99), PyStr(Summary100),
                  PyStr(SummarySpam), PyStr(SummaryHere)}
GateEngagements == {PyInt(k) : k \in {0 - 1, 0, 9, 10, 19, 20, 49, 50}}
GateUrls == {PyStr(UrlFtp), PyStr(UrlPlain), PyStr(UrlMemes), PyStr(UrlRust), PyStr(UrlFunny)}

GateItems(titles, summaries, engagements, urls) ==
    {Dict([source |-> so, title |-> ti, summary |-> su, engagement_score |-> en, url |-> ur]) :
        so \in FilterSources, ti \in titles, su \in summaries, en \in engagements,
        ur \in urls}

\* every text and url with a low and a high engagement, and every
\* engagement with two titles and two summaries
GateInputs ==
    GateItems(GateTitles, GateSummaries, {PyInt(0), PyInt(50)}, GateUrls)
    \cup GateItems({PyStr(Title10), PyStr(Title30)}, {Absent, PyStr(Summary100)},
                   GateEngagements, {PyStr(UrlPlain)})

InitGate ==
    /\ Idle
    /\ content_items \in {<<item>> : item \in GateInputs}
    /\ outcome = [op |-> "init"]

NextGate == Evaluate

SpecGate == InitGate /\ [][NextGate]_vars

(***************************************************************************)
(* Claims about the rules of the filter                                    *)
(***************************************************************************)
IsVerdict == outcome.op = "is_high_quality" /\ outcome.verdict.exc = ""

\* the item the verdict is about, and its fields
Judged == outcome.before[1]
JudgedSource == Get(Judged, "source", PyStr(<<>>))
JudgedEngagement == Get(Judged, "engagement_score", PyInt(0)).n

\* the minimum engagement by source
MinimumOf(source) ==
    IF source = PyStr(HackerNews) THEN 20
    ELSE IF source = PyStr(DevTo) THEN 10
    ELSE IF source = PyStr(Reddit) THEN 50
    ELSE 10

RejectedFor(text) == ~outcome.verdict.ok /\ outcome.verdict.reason.text = text

\* C22: an ArXiv item is never rejected for low engagement; an item of
\* another source that passes the title and summary checks is rejected for
\* low engagement exactly when its engagement is below the minimum of its
\* source: 20 for HackerNews, 10 for Dev.to, 50 for Reddit, 10 otherwise.
C22_EngagementBySource ==
    IsVerdict =>
        /\ JudgedSource = PyStr(ArXiv) => ~RejectedFor("Low engagement")
        /\ (JudgedSource # PyStr(ArXiv) /\ ViolatedRules(Judged) \cap {1, 2} = {})
           => (RejectedFor("Low engagement") <=> JudgedEngagement < MinimumOf(JudgedSource))

\* a HackerNews item with exactly the minimum engagement, accepted
C22_Witness ==
    /\ IsVerdict
    /\ JudgedSource = PyStr(HackerNews)
    /\ JudgedEngagement = 20
    /\ outcome.verdict.ok

\* the url names, in whatever letter case, an excluded subreddit
InExcludedGroup(item) ==
    LET url == TextOf(item, "url")
    IN  /\ SubredditStarts(url) # {}
        /\ Lower(SubredditGroup(url)) \in RangeOf(excluded_subreddits)

\* C23: a Reddit item that passes checks 1 to 5 is rejected when its url
\* names an excluded subreddit, in any letter case; else rejected when its
\* title is shorter than 30 and its summary shorter than 100; else
\* accepted.  An item of another source is rejected for neither.
C23_RedditRuleOnly ==
    IsVerdict =>
        /\ (JudgedSource = PyStr(Reddit) /\ ViolatedRules(Judged) \cap (1..5) = {})
           => IF InExcludedGroup(Judged) THEN RejectedFor("Excluded subreddit")
              ELSE IF Len(TextOf(Judged, "title")) < 30 /\ Len(TextOf(Judged, "summary")) < 100
              THEN RejectedFor("Reddit post lacks substance")
              ELSE outcome.verdict.ok
        /\ JudgedSource # PyStr(Reddit)
           => /\ ~RejectedFor("Excluded subreddit")
              /\ ~RejectedFor("Reddit post lacks substance")

\* a Reddit item of r/FUNNY with a long title, rejected for its subreddit
C23_Witness ==
    /\ IsVerdict
    /\ JudgedSource = PyStr(Reddit)
    /\ TextOf(Judged, "url") = UrlFunny
    /\ Len(TextOf(Judged, "title")) >= 30
    /\ RejectedFor("Excluded subreddit")

\* the spam phrases standing in the lowercased title, space, summary
SpamIn(item) ==
    LET text == Lower(TextOf(item, "title")) \o <<" ">> \o Lower(TextOf(item, "summary"))
    IN  {phrase \in RangeOf(spam_keywords) : Occurs(phrase, text)}

\* C24: an item that passes the title, summary and engagement checks and
\* whose title, a space and summary hold a spam phrase, in any letter case
\* and at any place, is rejected with a reason that names a spam phrase
\* found in it; an item that holds none is never rejected for spam.
C24_SpamAnyCaseAnywhere ==
    IsVerdict =>
        /\ (ViolatedRules(Judged) \cap {1, 2, 3} = {} /\ SpamIn(Judged) # {})
           => /\ RejectedFor("Spam keyword detected")
              /\ outcome.verdict.reason.kw \in SpamIn(Judged)
        /\ SpamIn(Judged) = {} => ~RejectedFor("Spam keyword detected")

\* "Buy Now" at the end of the summary, under a clean title
C24_Witness ==
    /\ IsVerdict
    /\ TextOf(Judged, "summary") = SummarySpam
    /\ TextOf(Judged, "title") = Title30
    /\ RejectedFor("Spam keyword detected")
    /\ outcome.verdict.reason.kw = <<"b","u","y"," ","n","o","w">>

(***************************************************************************)
(* GeminiClient.  What the service does with a call is a response: a text, *)
(* which may be empty, or an exception raised inside the call.             *)
(***************************************************************************)
Answers(text) == [raised |-> FALSE, text |-> PyStr(text)]
Fails == [raised |-> TRUE, text |-> None]

\* the try of generate_content: response.text, or None on any exception
generate_content(response) ==
    IF response.raised THEN None ELSE response.text

\* the state of one generate_with_retry call: attempt counts the turns of
\* its loop begun, responses holds what the service did in each
RetryCall(max_retries) ==
    [pc |-> "loop", max_retries |-> max_retries, attempt |-> 0, responses |-> <<>>,
     exc |-> "", result |-> None]

\* a variant that tries on after a result and returns the last one
retry_step_to_the_end(call, response) ==
    LET result == generate_content(response)
        turned == [call EXCEPT !.attempt = @ + 1, !.responses = Append(@, response)]
    IN  IF Truthy(result) /\ turned.attempt >= call.max_retries
        THEN [turned EXCEPT !.pc = "returned", !.result = result]
        ELSE turned

\* one turn of the loop: generate_content does not raise, so the except
\* branch of the loop is never taken
retry_step(call, response) ==
    LET result == generate_content(response)
        turned == [call EXCEPT !.attempt = @ + 1, !.responses = Append(@, response)]
    IN  IF Truthy(result)
        THEN [turned EXCEPT !.pc = "returned", !.result = result]
        ELSE turned

(***************************************************************************)
(* SpecRetry: one call of generate_with_retry, the service answering each  *)
(* attempt with a text, an empty text or an exception.  SpecRetryFair: the *)
(* same, every call of the service coming back.                            *)
(***************************************************************************)
MaxRetries == 4     \* largest max_retries

OtherText == <<"d","r","a","f","t">>
Responses == {Answers(PostText), Answers(OtherText), Answers(<<>>), Fails}

InitRetry ==
    /\ Idle
    /\ content_items = <<>>
    /\ outcome = [op |-> "init"]

\* generate_with_retry(prompt, max_retries) is entered
BeginRetry(max_retries) ==
    /\ calls = <<>>
    /\ calls' = <<RetryCall(max_retries)>>
    /\ UNCHANGED <<now, content_items, filtered_items, top_items, best_item, outcome,
                   prev, db_content, db_posts, ticks>>

\* one attempt
Attempt(response) ==
    /\ calls # <<>>
    /\ calls[1].pc = "loop" /\ calls[1].attempt < calls[1].max_retries
    /\ Step(<<retry_step(calls[1], response)>>)

\* the loop is over: return None
GiveUp ==
    /\ calls # <<>>
    /\ calls[1].pc = "loop" /\ calls[1].attempt >= calls[1].max_retries
    /\ Step(<<[calls[1] EXCEPT !.pc = "returned", !.result = None]>>)

NextRetry ==
    \/ \E max_retries \in 0..MaxRetries : BeginRetry(max_retries)
    \/ \E response \in Responses : Attempt(response)
    \/ GiveUp

SpecRetry == InitRetry /\ [][NextRetry]_vars

\* a call of the service comes back, and the function gets to run
SpecRetryFair ==
    /\ SpecRetry
    /\ WF_vars(\E response \in Responses : Attempt(response))
    /\ WF_vars(GiveUp)

\* the attempts that gave a non-empty text
Successes(call) ==
    {i \in 1..Len(call.responses) :
        ~call.responses[i].raised /\ call.responses[i].text.s # <<>>}

\* what holds of a call at every moment
RetryInBounds(call) ==
    /\ call.exc = ""
    /\ Len(call.responses) = call.attempt
    /\ call.attempt <= call.max_retries
    /\ call.pc = "loop" => Successes(call) = {}
    /\ call.pc = "returned" =>
          IF Successes(call) # {}
          THEN /\ Successes(call) = {Len(call.responses)}
               /\ call.result = call.responses[Len(call.responses)].text
          ELSE /\ call.result = None
               /\ Len(call.responses) = call.max_retries

\* C25: generate_with_retry calls the service at most max_retries times,
\* returns the first non-empty text and calls no more after it, returns
\* None when every attempt raised or gave an empty text, raises nothing,
\* and returns in the end.
C25_RetryBoundedAndTotal ==
    /\ [](\A k \in 1..Len(calls) : RetryInBounds(calls[k]))
    /\ (calls # <<>>) ~> (calls # <<>> /\ calls[1].pc = "returned")

\* an exception, an empty text, then a text, which is returned
C25_Witness ==
    /\ calls # <<>>
    /\ calls[1].pc = "returned"
    /\ calls[1].responses = <<Fails, Answers(<<>>), Answers(PostText)>>
    /\ calls[1].result = PyStr(PostText)

(***************************************************************************)
(* SpecStore: add_content_item and _save_items called again and again with *)
(* items of three urls, each url under two titles.                         *)
(***************************************************************************)
StoreItems ==
    {Scraped(HackerNews, title, Summary60, 30, Url(c), AI, 5) :
        title \in {Title26, Title40}, c \in {"a", "b", "c"}}

\* the batches of one scraper: up to two items, or one url three times
StoreBatches ==
    ListsOver(StoreItems, 2)
    \cup {<<first, second, first>> : first, second \in StoreItems}

\* result = self.db.add_content_item(item)
AddContentItem(item) ==
    \E result \in {add_content_item(db_content, item)} :
        /\ db_content' = result.table
        /\ outcome' = [op |-> "add_content_item", exc |-> result.exc, item |-> item,
                       id |-> result.id, before |-> db_content]
        /\ UNCHANGED <<calls, now, content_items, filtered_items, top_items, best_item, prev,
                       db_posts, ticks>>

\* saved_count = self._save_items(items)
SaveItems(items) ==
    \E saved \in {save_items(db_content, items)} :
        /\ db_content' = saved.table
        /\ outcome' = [op |-> "_save_items", exc |-> saved.exc, items |-> items,
                       saved_count |-> saved.saved_count, before |-> db_content]
        /\ UNCHANGED <<calls, now, content_items, filtered_items, top_items, best_item, prev,
                       db_posts, ticks>>

NextStore ==
    \/ \E item \in StoreItems : AddContentItem(item)
    \/ \E items \in StoreBatches : SaveItems(items)

SpecStore == Init /\ [][NextStore]_vars

UrlsOf(list) == {list[i]["url"] : i \in 1..Len(list)}

\* C26: no two stored items share a url; add_content_item with a stored
\* url returns None and leaves the table as it was; the count _save_items
\* returns is the number of rows the table grew by, which is the number
\* of urls of the batch that were not stored before.
C26_UniqueByUrl ==
    /\ \A i, j \in 1..Len(db_content) :
          db_content[i]["url"] = db_content[j]["url"] => i = j
    /\ outcome.op = "add_content_item" =>
          /\ outcome.exc = ""
          /\ outcome.item["url"] \in UrlsOf(outcome.before)
             => outcome.id = None /\ db_content = outcome.before
          /\ outcome.item["url"] \notin UrlsOf(outcome.before)
             => outcome.id # None /\ Len(db_content) = Len(outcome.before) + 1
    /\ outcome.op = "_save_items" =>
          /\ outcome.exc = ""
          /\ outcome.saved_count = Len(db_content) - Len(outcome.before)
          /\ outcome.saved_count
               = Cardinality(UrlsOf(outcome.items) \ UrlsOf(outcome.before))
          /\ SubSeq(db_content, 1, Len(outcome.before)) = outcome.before

\* a batch of three with one url twice and one stored already: none saved
\* of the first, one of the second
C26_Witness ==
    /\ outcome.op = "_save_items"
    /\ Len(outcome.items) = 3
    /\ outcome.items[1]["url"] = outcome.items[3]["url"]
    /\ outcome.items[1]["url"] \in UrlsOf(outcome.before)
    /\ outcome.items[2]["url"] \notin UrlsOf(outcome.before)
    /\ outcome.saved_count = 1


(***************************************************************************)
(* SpecUsed: the database filled by one fetch, then read by                *)
(* generate_news_post and preview_top_content while items are marked used  *)
(* through ContentDatabase.mark_content_used.                              *)
(***************************************************************************)
MaxPosts == 2       \* stored posts

\* the ids mark_content_used is called with: the two best items of the
\* fetch, and an id no row has
MarkedIds == {1, 3, 6}

\* self.db.mark_content_used(content_id)
MarkContentUsed(content_id) ==
    /\ db_content' = mark_content_used(db_content, PyInt(content_id))
    /\ outcome' = [op |-> "mark_content_used", exc |-> "", clock |-> now,
                   n |-> content_id]
    /\ UNCHANGED <<calls, now, content_items, filtered_items, top_items, best_item, prev,
                   db_posts, ticks>>

\* generate_tip_post(): the service gives post_content, or fails (None)
GenerateTipPost(post_content) ==
    /\ Len(db_posts) < MaxPosts
    /\ \E run \in {generate_tip_post(post_content)} :
          /\ outcome' = [op |-> "generate_tip_post", exc |-> run.exc, clock |-> now,
                         n |-> 0, stage |-> run.stage, post_content |-> post_content,
                         posts_before |-> Len(db_posts),
                         used_before |-> UsedIds(db_content), conn |-> run.conn]
          /\ db_posts' = run.db_posts
    /\ UNCHANGED <<calls, now, content_items, filtered_items, top_items, best_item, prev,
                   db_content, ticks>>

NextUsed ==
    \/ FetchAllContent(<<>>, HackerNewsItems, <<>>, RedditItems)
    \/ \E content_id \in MarkedIds : MarkContentUsed(content_id)
    \/ \E category \in {None, PyStr(DevOps)}, days_back \in {1, 7},
          post_content \in {None, PyStr(PostText)} :
          GenerateNewsPost(category, days_back, post_content)
    \/ \E days_back \in {1, 7}, n \in {3, 10} : PreviewTopContent(days_back, n)

SpecUsed == Init /\ [][NextUsed]_vars


(***************************************************************************)
(* Claims about the used flag and the stored posts                         *)
(***************************************************************************)
ReadsContent == outcome.op \in {"generate_news_post", "preview_top_content"}

MarkPosted(post_id) ==
    \E done \in {mark_posted(db_posts, post_id)} :
        /\ db_posts' = done.db_posts
        /\ outcome' = [op |-> "mark_posted", exc |-> "", clock |-> now, n |-> post_id,
                       exit |-> done.exit, before |-> db_posts]
        /\ UNCHANGED <<calls, now, content_items, filtered_items, top_items, best_item,
                       prev, db_content, ticks>>

\* drafts = db.get_drafts()
GetDrafts ==
    \E drafts \in get_drafts(db_posts) :
        /\ outcome' = [op |-> "get_drafts", exc |-> "", clock |-> now, n |-> 0,
                       drafts |-> drafts]
        /\ UNCHANGED <<calls, now, content_items, filtered_items, top_items, best_item,
                       prev, db_content, db_posts, ticks>>

\* stats = db.get_statistics()
GetStatistics ==
    /\ outcome' = [op |-> "get_statistics", exc |-> "", clock |-> now, n |-> 0,
                   stats |-> get_statistics(db_posts, db_content)]
    /\ UNCHANGED <<calls, now, content_items, filtered_items, top_items, best_item,
                   prev, db_content, db_posts, ticks>>

NextPosts ==
    \/ Tick
    \/ FetchAllContent(<<>>, HackerNewsItems, <<>>, <<>>)
    \/ \E post_content \in {None, PyStr(PostText)} :
          GenerateNewsPost(None, 7, post_content)
    \/ \E post_content \in {None, PyStr(PostText)} : GenerateTipPost(post_content)
    \/ \E post_id \in 1..(MaxPosts + 1) : MarkPosted(post_id)
    \/ GetDrafts
    \/ GetStatistics

SpecPosts == Init /\ [][NextPosts]_vars


\* C28: when the generation service fails, generate_news_post and
\* generate_tip_post return None, store no post, mark no item used and
\* leave the connection closed.
C28_FailedGenerationReturnsNone ==
    (/\ outcome.op \in {"generate_news_post", "generate_tip_post"}
     /\ outcome.post_content = None)
    => /\ outcome.exc = ""
       /\ outcome.stage # "complete"
       /\ Len(db_posts) = outcome.posts_before
       /\ UsedIds(db_content) = outcome.used_before
       /\ outcome.conn = "closed"

Draft == PyStr(<<"d","r","a","f","t">>)

Posted == PyStr(<<"p","o","s","t","e","d">>)

PostIds(posts) == {posts[i]["id"].n : i \in 1..Len(posts)}

\* C29: a post is stored as a draft; its status changes only from draft to
\* posted, and only in a mark-posted command naming it; get_statistics
\* counts every post as posted or as draft; get_drafts returns the posts
\* that are not posted, each once; mark-posted with an id no post has
\* changes nothing.
C29_PostLifecycle ==
    /\ [](/\ \A i \in 1..Len(db_posts) : db_posts[i]["status"] \in {Draft, Posted}
          /\ outcome.op = "get_statistics" =>
                (/\ outcome.stats.total_posts = Len(db_posts)
                 /\ outcome.stats.total_posts
                      = outcome.stats.posted_count + outcome.stats.draft_count)
          /\ outcome.op = "get_drafts" =>
                (/\ PostIds(outcome.drafts)
                      = {db_posts[i]["id"].n :
                           i \in {k \in 1..Len(db_posts) : db_posts[k]["status"] # Posted}}
                 /\ Cardinality(PostIds(outcome.drafts)) = Len(outcome.drafts))
          /\ (outcome.op = "mark_posted" /\ outcome.n \notin PostIds(outcome.before)) =>
                db_posts = outcome.before)
    /\ [][/\ Len(db_posts') >= Len(db_posts)
          /\ \A i \in 1..Len(db_posts) :
                db_posts'[i]["status"] # db_posts[i]["status"] =>
                   (/\ db_posts[i]["status"] = Draft
                    /\ db_posts'[i]["status"] = Posted
                    /\ outcome'.op = "mark_posted"
                    /\ outcome'.n = db_posts[i]["id"].n)
          /\ \A i \in (Len(db_posts) + 1)..Len(db_posts') :
                db_posts'[i]["status"] = Draft]_vars

\* two posts stored, one marked posted, the other listed by get_drafts
C29_Witness ==
    /\ outcome.op = "get_drafts"
    /\ Len(db_posts) = 2
    /\ Len(outcome.drafts) = 1
    /\ \E i \in 1..2 : db_posts[i]["status"] = Posted


====
